---- MODULE Spec2Model ----
(***************************************************************************)
(* RRAM-crossbar Max-Cut solver (MNSIM/Interface/maxcut_interface.py and   *)
(* MNSIM/Interface/rram_psa.py) as a state machine.                        *)
(*                                                                         *)
(* Numbers.  The program computes in floating point.  The model computes   *)
(* in exact extended rationals: a value is a pair <<n, d>> in lowest terms *)
(* with d >= 0; <<1,0>> is +inf, <<-1,0>> is -inf and <<0,0>> is NaN, so   *)
(* that 1/0, inf*0 and 0/0 behave as they do in numpy.  Rounding error and *)
(* overflow of finite values are not modelled.                             *)
(***************************************************************************)
EXTENDS Integers, Sequences, FiniteSets, TLC

\* ------------------------------------------------------------------ bounds
MaxN == 3          \* largest node count drawn for the crossbar specification
MaxTile == 3       \* largest crossbar dimension (rows or columns) drawn
MaxTrials == 2     \* largest number of trials of a run
MaxCycles == 2     \* largest `cycles` of a run
MaxTau == 2        \* largest `tau` of a run
MaxCount == 10     \* where the count of gain levels stops counting
MaxLayers == 3     \* layers of a problem structure

\* ------------------------------------------------------- extended rationals
Abs(x) == IF x < 0 THEN -x ELSE x
Sgn(x) == IF x > 0 THEN 1 ELSE IF x < 0 THEN -1 ELSE 0

RECURSIVE Gcd(_, _)
Gcd(a, b) == IF b = 0 THEN a ELSE Gcd(b, a % b)

Norm(x) ==
    IF x[2] = 0 THEN <<Sgn(x[1]), 0>>
    ELSE LET g == Gcd(Abs(x[1]), Abs(x[2]))
             s == Sgn(x[2])
         IN  <<(s * x[1]) \div g, (s * x[2]) \div g>>

NaN == <<0, 0>>
Inf == <<1, 0>>
Zero == <<0, 1>>
One == <<1, 1>>
ToRat(i) == <<i, 1>>
IsNaN(x) == x = NaN
IsFinite(x) == x[2] > 0

RAdd(x, y) ==
    IF IsNaN(x) \/ IsNaN(y) THEN NaN
    ELSE IF x[2] = 0 /\ y[2] = 0 THEN (IF x = y THEN x ELSE NaN)
    ELSE IF x[2] = 0 THEN x
    ELSE IF y[2] = 0 THEN y
    ELSE Norm(<<x[1] * y[2] + y[1] * x[2], x[2] * y[2]>>)
RNeg(x) == <<-x[1], x[2]>>
RSub(x, y) == RAdd(x, RNeg(y))
RMul(x, y) == IF IsNaN(x) \/ IsNaN(y) THEN NaN ELSE Norm(<<x[1] * y[1], x[2] * y[2]>>)
RRecip(x) == IF x[1] < 0 THEN <<-x[2], -x[1]>> ELSE <<x[2], x[1]>>
RDiv(x, y) == RMul(x, RRecip(y))
\* every comparison with NaN is false
RGt(x, y) == ~IsNaN(x) /\ ~IsNaN(y) /\ x[1] * y[2] > y[1] * x[2]
RLeq(x, y) == ~IsNaN(x) /\ ~IsNaN(y) /\ x[1] * y[2] <= y[1] * x[2]
RSgn(x) == Sgn(x[1])

\* x > 10^(-e), decided without forming 10^e
RECURSIVE GtPow10Neg(_, _, _)
GtPow10Neg(n, d, e) ==
    IF n <= 0 THEN FALSE
    ELSE IF d = 0 THEN TRUE
    ELSE IF n > d THEN TRUE
    ELSE IF e = 0 THEN FALSE
    ELSE GtPow10Neg(n * 10, d, e - 1)

\* numpy's round: to the nearest integer, ties to the even one
RoundHalfEven(x) ==
    LET f == x[1] \div x[2]
        r == x[1] % x[2]
    IN  IF 2 * r < x[2] THEN f
        ELSE IF 2 * r > x[2] THEN f + 1
        ELSE IF f % 2 = 0 THEN f ELSE f + 1

Idx(n) == 0 .. (n - 1)
Min2(a, b) == IF a < b THEN a ELSE b

\* ------------------------------------------------------------- the variables
VARIABLES
    pc,                 \* position of the caller
    num_nodes,          \* MaxCutInterface.num_nodes
    adjacency_matrix,   \* MaxCutInterface.adjacency_matrix, a matrix of numbers
                        \* (weights are floats: signed, fractional)
    crossbar_size,      \* MaxCutInterface.crossbar_size, <<rows, cols>>
    device_levels,      \* MaxCutInterface.device_levels
    device_resistance,  \* MaxCutInterface.device_resistance, a sequence
    matrix,             \* the resistance matrix quantize_weights returned to
                        \* partition_matrix_to_crossbars (its local `matrix`)
    crossbar_partitions,\* RRAMpSA.crossbar_partitions, a sequence of tiles
    J_matrix,           \* RRAMpSA.J_matrix
    h_vector,           \* RRAMpSA.h_vector
    vector,             \* argument of the last rram_matrix_vector_multiply call
    result,             \* its return value
    trials, cycles, tau, param_type,   \* arguments of run_psa_trials
    I0_min, I0_max, beta,              \* what set_annealing_parameters returned
    trial,              \* number of trials finished (the index of the trial loop)
    spin_vector,        \* the trial's spin vector
    I0,                 \* the gain, as the number k of `I0 /= beta` since
                        \* `I0 = I0_min`: the gain is I0_min / beta^k
    step,               \* index of the inner `for _ in range(tau)` loop
    noise,              \* the noise vector of the last update
    levels,             \* number of iterations of the while loop entered in this
                        \* trial (a counter kept for the claims, capped at MaxCount)
    cut_list, best_cut, best_partition,
    results,            \* the dictionary run_psa_trials returns
    rounding,           \* whether `I0 <= I0_max` holds in floating point for a
                        \* gain that equals I0_max in exact arithmetic: fixed
                        \* by the parameters, unknown to the model
    spin_list,          \* the final spin vector of every trial finished so far
                        \* (a history kept for the claims)
    maxcut_structure,   \* MaxCutTCG.maxcut_structure['layers'], a sequence
    layer_num,          \* MaxCutTCG.layer_num
    layer_tileinfo,     \* MaxCutTCG.layer_tileinfo
    NetStruct,          \* MaxCutTCG.NetStruct (the same list as MaxCutTCG.net)
    inLayer_distance,   \* MaxCutTCG.inLayer_distance
    transLayer_distance,\* MaxCutTCG.transLayer_distance
    argv,               \* the command line of maxcut_main.py, a sequence of tokens
    namespace,          \* what parser.parse_args() returned
    test_vectors,       \* argument of solve_maxcut_hardware
    full_results,       \* its full_result for each test vector
    partitions,         \* its partition for each test vector
    hardware_best       \* its return value <<best_partition, best_value>>

config == <<num_nodes, adjacency_matrix, crossbar_size, device_levels, device_resistance>>
solver == <<matrix, crossbar_partitions, J_matrix, h_vector>>
call == <<vector, result>>
args == <<trials, cycles, tau, param_type>>
params == <<I0_min, I0_max, beta, rounding>>
locals == <<trial, spin_vector, I0, step, noise, levels>>
tally == <<cut_list, best_cut, best_partition, results, spin_list>>
run == <<args, params, locals, tally>>
tcg == <<maxcut_structure, layer_num, layer_tileinfo, NetStruct, inLayer_distance,
         transLayer_distance>>
cli == <<argv, namespace>>
hardware == <<test_vectors, full_results, partitions, hardware_best>>
others == <<tcg, cli, hardware>>
vars == <<pc, config, solver, call, run, others>>

\* ----------------------------------------------------------- WeightQuantizer
\* a variant that takes the minimum over the edges only, the diagonal left out
MatMin_edges(W, n) ==
    LET edges == {q \in Idx(n) \X Idx(n) : q[1] # q[2]}
    IN CHOOSE m \in {W[q[1]][q[2]] : q \in edges} :
           \A q \in edges : RLeq(m, W[q[1]][q[2]])

MatMin(W, n) == CHOOSE m \in {W[i][j] : i, j \in Idx(n)} :
                    \A i, j \in Idx(n) : RLeq(m, W[i][j])
MatMax(W, n) == CHOOSE m \in {W[i][j] : i, j \in Idx(n)} :
                    \A i, j \in Idx(n) : RLeq(W[i][j], m)

\* one entry of W_norm, given W.min() and W.max()
W_norm(w, W_min, W_max) ==
    IF RGt(W_max, W_min) THEN RDiv(RSub(w, W_min), RSub(W_max, W_min)) ELSE w

\* a variant without np.round: astype(int) alone truncates toward zero
quantized_levels_trunc(w, W_min, W_max, L) ==
    LET x == RMul(W_norm(w, W_min, W_max), ToRat(L - 1))
    IN Sgn(x[1]) * (Abs(x[1]) \div x[2])

\* one entry of quantized_levels
quantized_levels(w, W_min, W_max, L) ==
    RoundHalfEven(RMul(W_norm(w, W_min, W_max), ToRat(L - 1)))

\* an entry whose level is no index of range(device_levels) keeps the 0 of zeros_like
resistance_values(lv, L, table) == IF lv \in Idx(L) THEN table[lv + 1] ELSE 0

quantize_weights(W, n, L, table) ==
    LET W_min == MatMin(W, n)
        W_max == MatMax(W, n)
    IN  [i \in Idx(n) |-> [j \in Idx(n) |->
            resistance_values(quantized_levels(W[i][j], W_min, W_max, L), L, table)]]

\* device_resistance[i] is read for every i in range(device_levels)
quantize_raises(L, table) == L > Len(table)

\* -------------------------------------------------------- CrossbarPartitioner
\* mutant: the sub-block is read at the tile-local index, not at the tile's origin
Tile_local(mat, n, rows_per_xbar, cols_per_xbar, i, j) ==
    LET end_i == Min2(i + rows_per_xbar, n)
        end_j == Min2(j + cols_per_xbar, n)
    IN  [position |-> <<i, j>>,
         actual_size |-> <<end_i - i, end_j - j>>,
         resistance_matrix |->
            [r \in Idx(rows_per_xbar) |-> [c \in Idx(cols_per_xbar) |->
                IF r < end_i - i /\ c < end_j - j THEN mat[r][c] ELSE 0]]]

Tile(mat, n, rows_per_xbar, cols_per_xbar, i, j) ==
    LET end_i == Min2(i + rows_per_xbar, n)
        end_j == Min2(j + cols_per_xbar, n)
    IN  [position |-> <<i, j>>,
         actual_size |-> <<end_i - i, end_j - j>>,
         resistance_matrix |->
            [r \in Idx(rows_per_xbar) |-> [c \in Idx(cols_per_xbar) |->
                IF r < end_i - i /\ c < end_j - j THEN mat[i + r][j + c] ELSE 0]]]

RECURSIVE PartitionCols(_, _, _, _, _, _)
PartitionCols(mat, n, rows_per_xbar, cols_per_xbar, i, j) ==
    IF j >= n THEN <<>>
    ELSE <<Tile(mat, n, rows_per_xbar, cols_per_xbar, i, j)>>
         \o PartitionCols(mat, n, rows_per_xbar, cols_per_xbar, i, j + cols_per_xbar)

\* mutant: the boundary tile of a row band that does not fill a crossbar is dropped
RECURSIVE PartitionRows_dropLast(_, _, _, _, _)
PartitionRows_dropLast(mat, n, rows_per_xbar, cols_per_xbar, i) ==
    IF i + rows_per_xbar > n THEN <<>>
    ELSE PartitionCols(mat, n, rows_per_xbar, cols_per_xbar, i, 0)
         \o PartitionRows_dropLast(mat, n, rows_per_xbar, cols_per_xbar, i + rows_per_xbar)

RECURSIVE PartitionRows(_, _, _, _, _)
PartitionRows(mat, n, rows_per_xbar, cols_per_xbar, i) ==
    IF i >= n THEN <<>>
    ELSE PartitionCols(mat, n, rows_per_xbar, cols_per_xbar, i, 0)
         \o PartitionRows(mat, n, rows_per_xbar, cols_per_xbar, i + rows_per_xbar)

\* the tiles cut from the quantized mat m
partition_matrix_to_crossbars(m, n, size) == PartitionRows(m, n, size[1], size[2], 0)

\* range(0, n, 0) raises ValueError: a crossbar with no rows stops the outer
\* loop, one with no columns the inner loop of the first row band
partition_raises(size) == size[1] = 0 \/ size[2] = 0

\* ------------------------------------------------------- CrossbarMVMSimulator
MinResistanceExp == 10     \* min_resistance = 1e-10

\* vector[pos_j : pos_j + actual_cols], zero-padded to the tile's width
vec_segment(vec, n, pos_j, actual_cols, c) ==
    IF c < actual_cols /\ pos_j + c < n THEN vec[pos_j + c] ELSE Zero

\* mutant: the quotient is used without the threshold test
conductance_unguarded(r) == RRecip(ToRat(r))

\* np.where(resistance_matrix > min_resistance, 1.0 / resistance_matrix, 0.0):
\* the quotient is formed for every cell (inf where the cell is 0), then selected
conductance(r) ==
    LET inverse == RRecip(ToRat(r))
    IN  IF GtPow10Neg(r, 1, MinResistanceExp) THEN inverse ELSE Zero

\* np.dot(conductance_matrix, vec_segment)[r], summed left to right
RECURSIVE DotRow(_, _, _, _, _, _)
DotRow(part, vec, n, r, c, width) ==
    IF c >= width THEN Zero
    ELSE RAdd(RMul(conductance(part.resistance_matrix[r][c]),
                   vec_segment(vec, n, part.position[2], part.actual_size[2], c)),
              DotRow(part, vec, n, r, c + 1, width))

current_segment(part, vec, n, r, width) == DotRow(part, vec, n, r, 0, width)

\* mutant: the tile's currents overwrite the result instead of adding to it
Accumulate_overwrite(res, part, vec, n, width) ==
    [r \in Idx(n) |->
        IF part.position[1] <= r /\ r < part.position[1] + part.actual_size[1]
        THEN current_segment(part, vec, n, r - part.position[1], width)
        ELSE res[r]]

\* result[pos_i : pos_i + actual_rows] += current_segment[:actual_rows]
Accumulate(res, part, vec, n, width) ==
    [r \in Idx(n) |->
        IF part.position[1] <= r /\ r < part.position[1] + part.actual_size[1]
        THEN RAdd(res[r], current_segment(part, vec, n, r - part.position[1], width))
        ELSE res[r]]

RECURSIVE MVMLoop(_, _, _, _, _, _)
MVMLoop(parts, k, res, vec, n, width) ==
    IF k > Len(parts) THEN res
    ELSE MVMLoop(parts, k + 1, Accumulate(res, parts[k], vec, n, width), vec, n, width)

\* mutant: the result vector starts from ones instead of zeros
rram_matrix_vector_multiply_ones(parts, n, width, vec) ==
    MVMLoop(parts, 1, [r \in Idx(n) |-> One], vec, n, width)

\* width is resistance_matrix.shape[1], the crossbar's column count
rram_matrix_vector_multiply(parts, n, width, vec) ==
    MVMLoop(parts, 1, [r \in Idx(n) |-> Zero], vec, n, width)

\* ------------------------------------------- the crossbar specification
Weights == {Zero, One}
Tables == {<<4, 2, 1>>, <<0, 1>>}
\* the vectors drawn: each unit voltage, all ones, and two signed vectors
Vectors(n) == {[i \in Idx(n) |-> IF i = k THEN 1 ELSE 0] : k \in Idx(n)}
              \cup {[i \in Idx(n) |-> 1], [i \in Idx(n) |-> 0 - 1],
                    [i \in Idx(n) |-> IF i % 2 = 0 THEN 2 ELSE 0 - 1]}
Pairs(n) == {p \in Idx(n) \X Idx(n) : p[1] < p[2]}

\* the adjacency matrix of an undirected graph: symmetric, zero diagonal
MatrixOf(n, w) ==
    [i \in Idx(n) |-> [j \in Idx(n) |->
        IF i < j THEN w[<<i, j>>] ELSE IF j < i THEN w[<<j, i>>] ELSE Zero]]

SymMatrices(n) == {MatrixOf(n, w) : w \in [Pairs(n) -> Weights]}

\* before RRAMpSA.__init__ has run
NotConstructed ==
    /\ matrix = <<>>
    /\ crossbar_partitions = <<>>
    /\ J_matrix = <<>>
    /\ h_vector = <<>>

\* no rram_matrix_vector_multiply call made from outside
NoCall == vector = <<>> /\ result = <<>>

\* no MaxCutTCG built, no command line parsed, no solve_maxcut_hardware call
NoTCG ==
    /\ maxcut_structure = <<>> /\ layer_num = 0 /\ layer_tileinfo = <<>>
    /\ NetStruct = <<>> /\ inLayer_distance = <<>> /\ transLayer_distance = <<>>
NoCommandLine == argv = <<>> /\ namespace = <<>>
NoHardware ==
    /\ test_vectors = <<>> /\ full_results = <<>> /\ partitions = <<>>
    /\ hardware_best = <<>>

\* the locals of run_psa_trials before it has started
NoLocals ==
    /\ I0_min = Zero /\ I0_max = Zero /\ beta = [kind |-> "none"] /\ rounding = TRUE
    /\ trial = 0 /\ spin_vector = <<>> /\ I0 = 0 /\ step = 0 /\ noise = <<>>
    /\ levels = 0
    /\ cut_list = <<>> /\ best_cut = ToRat(0 - 1) /\ best_partition = <<>>
    /\ results = <<>>
    /\ spin_list = <<>>

\* run_psa_trials is not called
NoRun ==
    /\ trials = 0 /\ cycles = 0 /\ tau = 0 /\ param_type = 0
    /\ NoLocals

InitXbar ==
    /\ pc = "new"
    /\ num_nodes \in 1 .. MaxN
    /\ adjacency_matrix \in SymMatrices(num_nodes)
    /\ crossbar_size \in (1 .. MaxTile) \X (1 .. MaxTile)
    /\ device_resistance \in Tables
    /\ device_levels = Len(device_resistance)
    /\ NotConstructed
    /\ NoCall
    /\ NoTCG
    /\ NoCommandLine
    /\ NoHardware
    /\ NoRun

\* a variant with J = +G
ising_J_positive(G, n) == [i \in Idx(n) |-> [j \in Idx(n) |-> G[i][j]]]

\* J = -G (Max Cut -> Min Ising Energy)
ising_J(G, n) == [i \in Idx(n) |-> [j \in Idx(n) |-> RNeg(G[i][j])]]

\* RRAMpSA.__init__
Construct ==
    /\ pc = "new"
    /\ ~quantize_raises(device_levels, device_resistance)
    /\ ~partition_raises(crossbar_size)
    /\ matrix' = quantize_weights(adjacency_matrix, num_nodes, device_levels,
                                  device_resistance)
    /\ crossbar_partitions' = partition_matrix_to_crossbars(matrix', num_nodes, crossbar_size)
    /\ J_matrix' = ising_J(adjacency_matrix, num_nodes)
    /\ h_vector' = [i \in Idx(num_nodes) |-> 0]
    /\ pc' = "ready"
    /\ UNCHANGED <<others, config, call, run>>

\* one call of rram_matrix_vector_multiply
CallMVM ==
    /\ pc = "ready"
    /\ \E v \in Vectors(num_nodes) :
        /\ vector' = [i \in Idx(num_nodes) |-> ToRat(v[i])]
        /\ result' = rram_matrix_vector_multiply(
                crossbar_partitions, num_nodes, crossbar_size[2], vector')
    /\ pc' = "called"
    /\ UNCHANGED <<others, config, solver, run>>

\* the caller drops the result and may call again
ReturnMVM ==
    /\ pc = "called"
    /\ pc' = "ready"
    /\ vector' = <<>>
    /\ result' = <<>>
    /\ UNCHANGED <<others, config, solver, run>>

NextXbar == Construct \/ CallMVM \/ ReturnMVM
SpecXbar == InitXbar /\ [][NextXbar]_vars

\* ------------------------------------------------- solve_maxcut_hardware
\* np.where(resistance_matrix > 0, 1.0 / resistance_matrix, 0.0)
hardware_conductance(r) == IF r > 0 THEN RRecip(ToRat(r)) ELSE Zero

\* np.dot(conductance_matrix, vec_segment)[r], summed left to right, on the
\* segment test_vec[pos_j : pos_j + actual_cols] padded with zeros
RECURSIVE HardwareDot(_, _, _, _, _, _)
HardwareDot(part, vec, n, r, c, width) ==
    IF c >= width THEN Zero
    ELSE RAdd(RMul(hardware_conductance(part.resistance_matrix[r][c]),
                   vec_segment(vec, n, part.position[2], part.actual_size[2], c)),
              HardwareDot(part, vec, n, r, c + 1, width))

\* result_segment[:actual_rows]
result_segment(part, vec, n, width) ==
    [k \in 1 .. part.actual_size[1] |-> HardwareDot(part, vec, n, k - 1, 0, width)]

\* full_result = np.concatenate(result_parts), the tiles in list order. The
\* arrays of this method are sequences: entry r of the code is entry r + 1.
RECURSIVE full_result(_, _, _, _, _)
full_result(parts, k, vec, n, width) ==
    IF k = 0 THEN <<>>
    ELSE full_result(parts, k - 1, vec, n, width) \o result_segment(parts[k], vec, n, width)

\* the k-th smallest entry of a sequence
Kth(seq, k) ==
    CHOOSE x \in {seq[i] : i \in 1 .. Len(seq)} :
        /\ Cardinality({i \in 1 .. Len(seq) : RGt(x, seq[i])}) <= k - 1
        /\ Cardinality({i \in 1 .. Len(seq) : RLeq(seq[i], x)}) >= k
np_median(seq) ==
    IF Len(seq) % 2 = 1 THEN Kth(seq, (Len(seq) + 1) \div 2)
    ELSE RDiv(RAdd(Kth(seq, Len(seq) \div 2), Kth(seq, Len(seq) \div 2 + 1)), ToRat(2))

\* 0.0 for a vector of entries 0, 1 and -1, else the median of the result
hardware_threshold(test_vec, n, full) ==
    IF \A i \in Idx(n) : test_vec[i] \in {0, 1, 0 - 1} THEN Zero ELSE np_median(full)

\* (full_result > threshold).astype(int)
hardware_partition(full, threshold) ==
    [k \in 1 .. Len(full) |-> IF RGt(full[k], threshold) THEN 1 ELSE 0]

\* evaluate_cut_value: the weights of the edges whose ends differ
RECURSIVE EdgeSum(_, _)
EdgeSum(partition, ps) ==
    IF ps = {} THEN Zero
    ELSE LET p == CHOOSE q \in ps : TRUE
         IN RAdd(IF partition[p[1] + 1] # partition[p[2] + 1]
                 THEN adjacency_matrix[p[1]][p[2]] ELSE Zero,
                 EdgeSum(partition, ps \ {p}))
evaluate_cut_value(partition) == EdgeSum(partition, Pairs(num_nodes))

\* the loop over the test vectors: best_partition = None, best_value = -inf,
\* replaced by `if cut_value > best_value`
RECURSIVE hardware_loop(_, _)
hardware_loop(parts_of, k) ==
    IF k = 0 THEN [best_partition |-> <<>>, best_value |-> RNeg(Inf)]
    ELSE LET best == hardware_loop(parts_of, k - 1)
             cut_value == evaluate_cut_value(parts_of[k])
         IN IF RGt(cut_value, best.best_value)
            THEN [best_partition |-> parts_of[k], best_value |-> cut_value]
            ELSE best

\* the lists of test vectors drawn: none, one vector, or a vector followed by
\* the all-ones vector or the vector of entries 2 and -1
TestVectorLists(n) ==
    {<<>>} \cup {<<v>> : v \in Vectors(n)}
    \cup {<<v, w>> : v \in Vectors(n),
                    w \in {[i \in Idx(n) |-> 1], [i \in Idx(n) |-> IF i % 2 = 0 THEN 2 ELSE 0 - 1]}}

\* solve_maxcut_hardware(crossbar_partitions, test_vectors)
SolveHardware ==
    /\ pc = "ready"
    /\ test_vectors' \in TestVectorLists(num_nodes)
    /\ full_results' =
           [k \in 1 .. Len(test_vectors') |->
               full_result(crossbar_partitions, Len(crossbar_partitions),
                           [i \in Idx(num_nodes) |-> ToRat(test_vectors'[k][i])],
                           num_nodes, crossbar_size[2])]
    /\ partitions' =
           [k \in 1 .. Len(test_vectors') |->
               hardware_partition(full_results'[k],
                   hardware_threshold(test_vectors'[k], num_nodes, full_results'[k]))]
    /\ hardware_best' = hardware_loop(partitions', Len(test_vectors'))
    /\ pc' = "solved"
    /\ UNCHANGED <<config, solver, call, run, tcg, cli>>

NextHardware == Construct \/ SolveHardware
SpecHardware == InitXbar /\ [][NextHardware]_vars

\* ------------------------------------------------ claims on the crossbar
Constructed == pc \in {"ready", "called"}

\* cell (r, c) of the matrix lies in the occupied region of tile t
Covers(t, r, c) ==
    /\ t.position[1] <= r /\ r < t.position[1] + t.actual_size[1]
    /\ t.position[2] <= c /\ c < t.position[2] + t.actual_size[2]

CeilDiv(a, b) == (a + b - 1) \div b

\* C1: copying the occupied top-left block of every tile back to the tile's
\* position reproduces the quantized resistance matrix: every cell lies in the
\* occupied region of exactly one tile, which holds the cell's value at the
\* corresponding offset.
C1_Reconstruction ==
    Constructed =>
        \A r, c \in Idx(num_nodes) :
            /\ Cardinality({k \in 1 .. Len(crossbar_partitions) :
                    Covers(crossbar_partitions[k], r, c)}) = 1
            /\ \A k \in 1 .. Len(crossbar_partitions) :
                    Covers(crossbar_partitions[k], r, c) =>
                        crossbar_partitions[k].resistance_matrix
                            [r - crossbar_partitions[k].position[1]]
                            [c - crossbar_partitions[k].position[2]] = matrix[r][c]

\* a matrix with two different resistances cut into four or more tiles, one padded
C1_Witness ==
    /\ Constructed
    /\ Len(crossbar_partitions) >= 4
    /\ \E r, c \in Idx(num_nodes) : matrix[r][c] # matrix[0][0]
    /\ \E k \in 1 .. Len(crossbar_partitions) :
            crossbar_partitions[k].actual_size # crossbar_size

\* C2: there are ceil(N/Rtile)*ceil(N/Ctile) tiles in row-major order of origin;
\* the tile at origin (i,j) has actual_size (min(Rtile,N-i), min(Ctile,N-j)) and
\* a block of the canonical shape Rtile x Ctile that is 0 outside the occupied
\* region.
C2_TileLayout ==
    Constructed =>
        LET Rt == crossbar_size[1]
            Ct == crossbar_size[2]
            bands == CeilDiv(num_nodes, Ct)
        IN  /\ Len(crossbar_partitions) = CeilDiv(num_nodes, Rt) * bands
            /\ \A k \in 1 .. Len(crossbar_partitions) :
                LET t == crossbar_partitions[k]
                    i == ((k - 1) \div bands) * Rt
                    j == ((k - 1) % bands) * Ct
                IN  /\ t.position = <<i, j>>
                    /\ t.actual_size = <<Min2(Rt, num_nodes - i), Min2(Ct, num_nodes - j)>>
                    /\ DOMAIN t.resistance_matrix = Idx(Rt)
                    /\ \A r \in Idx(Rt) :
                        /\ DOMAIN t.resistance_matrix[r] = Idx(Ct)
                        /\ \A c \in Idx(Ct) :
                            (r >= t.actual_size[1] \/ c >= t.actual_size[2])
                                => t.resistance_matrix[r][c] = 0

\* several row bands, the last one padded, and several column tiles
C2_Witness ==
    /\ Constructed
    /\ crossbar_size[1] # crossbar_size[2]
    /\ num_nodes % crossbar_size[1] # 0
    /\ num_nodes > crossbar_size[1]
    /\ num_nodes > crossbar_size[2]

\* the product without tiles: G[r][c] = 1/R[r][c] if R[r][c] > epsilon else 0
UntiledG(r, c) ==
    IF GtPow10Neg(matrix[r][c], 1, MinResistanceExp)
    THEN <<1, matrix[r][c]>> ELSE Zero

RECURSIVE UntiledRow(_, _, _)
UntiledRow(vec, r, c) ==
    IF c >= num_nodes THEN Zero
    ELSE RAdd(RMul(UntiledG(r, c), vec[c]), UntiledRow(vec, r, c + 1))

Untiled(vec) == [r \in Idx(num_nodes) |-> UntiledRow(vec, r, 0)]

\* C3: rram_matrix_vector_multiply(v) is the untiled product of the conductance
\* matrix with v: the column tiles of a row band add up, padding adds nothing.
C3_MVMIsUntiledProduct ==
    pc = "called" => result = Untiled(vector)

\* a call over two or more column tiles, a padded one among them, with currents
\* from two of them in one row
C3_Witness ==
    /\ pc = "called"
    /\ num_nodes > crossbar_size[2]
    /\ num_nodes % crossbar_size[2] # 0
    /\ \E r \in Idx(num_nodes) : \E c1, c2 \in Idx(num_nodes) :
            /\ c1 < crossbar_size[2] /\ c2 >= crossbar_size[2]
            /\ RMul(UntiledG(r, c1), vector[c1]) # Zero
            /\ RMul(UntiledG(r, c2), vector[c2]) # Zero

VScale(a, v) == [i \in DOMAIN v |-> RMul(ToRat(a), v[i])]
VAdd(v, w) == [i \in DOMAIN v |-> RAdd(v[i], w[i])]
MVM(v) == rram_matrix_vector_multiply(crossbar_partitions, num_nodes, crossbar_size[2], v)
\* the second vector and the scalar pairs linearity is tried with
Second(n) == [i \in Idx(n) |-> ToRat(i + 1)]
ScalarPairs == {<<2, 0 - 1>>, <<0 - 1, 3>>}

\* C4: the crossbar product is linear: with v1 the vector of the call made and
\* mvm(v1) the result it returned, mvm(a*v1 + b*v2) = a*mvm(v1) + b*mvm(v2) for
\* the vector v2 and the scalars a, b tried; evaluating v1 again returns the
\* same result.
C4_MVMLinear ==
    pc = "called" =>
        /\ MVM(vector) = result
        /\ \A m2 \in {MVM(Second(num_nodes))} : \A ab \in ScalarPairs :
            \A w \in {VAdd(VScale(ab[1], vector), VScale(ab[2], Second(num_nodes)))} :
                MVM(w) = VAdd(VScale(ab[1], result), VScale(ab[2], m2))

\* a call whose result is not the zero vector
C4_Witness ==
    /\ pc = "called"
    /\ \E r \in Idx(num_nodes) : result[r] # Zero
    /\ Len(crossbar_partitions) >= 2

\* C5: every resistance <= epsilon (the zeros of the padding and of the table)
\* gets conductance 0, so the result of a call holds finite values only.
C5_MVMFinite ==
    pc = "called" =>
        /\ \A r \in Idx(num_nodes) : IsFinite(result[r])
        /\ \A k \in 1 .. Len(crossbar_partitions) :
            \A r \in Idx(crossbar_size[1]) : \A c \in Idx(crossbar_size[2]) :
                crossbar_partitions[k].resistance_matrix[r][c] = 0
                    => conductance(crossbar_partitions[k].resistance_matrix[r][c]) = Zero

\* a call with a non-zero voltage on a column whose row holds a zero resistance
\* from the table, over tiles that are padded as well
C5_Witness ==
    /\ pc = "called"
    /\ \E r, c \in Idx(num_nodes) : matrix[r][c] = 0 /\ vector[c] # Zero
    /\ \E k \in 1 .. Len(crossbar_partitions) :
            crossbar_partitions[k].actual_size # crossbar_size

\* ------------------------------------------------------------ statistics
\* numpy reductions over a function f on Idx(n) whose values are numbers of
\* the model (extended rationals)
RECURSIVE SumTo(_, _)
SumTo(f, k) == IF k = 0 THEN Zero ELSE RAdd(SumTo(f, k - 1), f[k - 1])

\* np.mean; the mean of nothing is 0/0 = nan
np_mean(f, n) == RDiv(SumTo(f, n), ToRat(n))

\* np.var: the mean of the squared deviations from the mean
np_var(f, n) ==
    LET m == np_mean(f, n)
    IN np_mean([i \in Idx(n) |-> RMul(RSub(f[i], m), RSub(f[i], m))], n)

RECURSIVE MaxTo(_, _)
MaxTo(f, k) == IF k = 1 THEN f[0]
               ELSE LET m == MaxTo(f, k - 1) IN IF RGt(f[k - 1], m) THEN f[k - 1] ELSE m
RECURSIVE MinTo(_, _)
MinTo(f, k) == IF k = 1 THEN f[0]
               ELSE LET m == MinTo(f, k - 1) IN IF RGt(m, f[k - 1]) THEN f[k - 1] ELSE m
np_max(f, n) == MaxTo(f, n)
np_min(f, n) == MinTo(f, n)
RAbs(x) == IF RGt(Zero, x) THEN RNeg(x) ELSE x

\* np.sqrt. A square root is kept to SqrtScale parts of its argument's
\* denominator, rounded down: exact on the squares of rationals (so sqrt(0) = 0
\* and sqrt(4) = 2), positive on every positive argument, an approximation
\* elsewhere. Only the sign, the zero and the order of the gains computed from
\* it are used below.
SqrtScale == 100
RECURSIVE ISqrtIn(_, _, _)
ISqrtIn(n, lo, hi) ==
    IF lo >= hi THEN lo
    ELSE LET mid == (lo + hi + 1) \div 2
         IN IF mid * mid <= n THEN ISqrtIn(n, mid, hi) ELSE ISqrtIn(n, lo, mid - 1)
np_sqrt(x) ==
    IF IsNaN(x) \/ RGt(Zero, x) THEN NaN
    ELSE IF x = Inf THEN Inf
    ELSE LET n == x[1] * x[2] * SqrtScale * SqrtScale
         IN Norm(<<ISqrtIn(n, 0, Min2(n, 40000)), x[2] * SqrtScale>>)

\* np.tanh is odd, increasing and bounded by 1 and keeps nan. The model keeps
\* the sign of its argument only: every finite non-zero argument maps to
\* +-1/4, the infinities to +-1.
np_tanh(x) ==
    IF IsNaN(x) THEN NaN
    ELSE IF x = Inf THEN One
    ELSE IF x = RNeg(Inf) THEN RNeg(One)
    ELSE <<RSgn(x), IF RSgn(x) = 0 THEN 1 ELSE 4>>

\* int(x) of a float: truncation toward zero
int(x) == Sgn(x[1]) * (Abs(x[1]) \div x[2])

\* --------------------------------------------------------- local field
\* a variant that applies the spins themselves as voltages
spin_to_voltage_signed(spin, n) == [i \in Idx(n) |-> ToRat(spin[i])]

\* (spin_vector + 1) / 2
spin_to_voltage(spin, n) == [i \in Idx(n) |-> RDiv(ToRat(spin[i] + 1), ToRat(2))]

RECURSIVE SeqMinTo(_, _)
SeqMinTo(s, k) == IF k = 1 THEN s[1] ELSE Min2(SeqMinTo(s, k - 1), s[k])
\* np.max(np.abs(J))
MaxAbs(J, n) ==
    CHOOSE m \in {RAbs(J[i][j]) : i \in Idx(n), j \in Idx(n)} :
        \A i \in Idx(n), j \in Idx(n) : RLeq(RAbs(J[i][j]), m)

\* 1.0 / min(device_resistance) divides Python floats: a table holding a zero
\* resistance makes it raise ZeroDivisionError. The annealing specification
\* draws tables of positive resistances.
voltage_to_field(voltage_output, n, table, J) ==
    LET max_conductance == RDiv(One, ToRat(SeqMinTo(table, Len(table))))
        field_scale == RMul(max_conductance, MaxAbs(J, n))
    IN [i \in Idx(n) |-> RMul(voltage_output[i], field_scale)]

calculate_local_field_rram(spin) ==
    LET voltage_vector == spin_to_voltage(spin, num_nodes)
        j_dot_s == rram_matrix_vector_multiply(
                       crossbar_partitions, num_nodes, crossbar_size[2], voltage_vector)
        field == voltage_to_field(j_dot_s, num_nodes, device_resistance, J_matrix)
    IN [i \in Idx(num_nodes) |-> RAdd(field[i], ToRat(h_vector[i]))]

\* cut = sum over i < j of w_ij (1 - s_i s_j), halved
RECURSIVE CutSum(_, _, _)
CutSum(W, spin, ps) ==
    IF ps = {} THEN Zero
    ELSE LET p == CHOOSE q \in ps : TRUE
         IN RAdd(RMul(W[p[1]][p[2]], ToRat(1 - spin[p[1]] * spin[p[2]])),
                 CutSum(W, spin, ps \ {p}))
\* mutant: the cut is evaluated on J
calculate_cut_value_J(spin) ==
    RDiv(CutSum(J_matrix, spin, Pairs(num_nodes)), ToRat(2))

calculate_cut_value_rram(spin) ==
    RDiv(CutSum(adjacency_matrix, spin, Pairs(num_nodes)), ToRat(2))

\* mutant: a spin flips up when the sum is exactly zero
psa_annealing_step_geq(spin, gain, noise_vector) ==
    LET local_field == calculate_local_field_rram(spin)
        Itanh == [i \in Idx(num_nodes) |->
                     RAdd(np_tanh(RMul(gain, local_field[i])), noise_vector[i])]
    IN [i \in Idx(num_nodes) |-> IF RLeq(Zero, Itanh[i]) THEN 1 ELSE 0 - 1]

\* np.where(Itanh > 0, 1, -1): a comparison with nan is false
psa_annealing_step(spin, gain, noise_vector) ==
    LET local_field == calculate_local_field_rram(spin)
        Itanh == [i \in Idx(num_nodes) |->
                     RAdd(np_tanh(RMul(gain, local_field[i])), noise_vector[i])]
    IN [i \in Idx(num_nodes) |-> IF RGt(Itanh[i], Zero) THEN 1 ELSE 0 - 1]

\* ------------------------------------------------------ annealing schedule
mean_each(J, n, j) == RMul(ToRat(n - 1), np_mean([i \in Idx(n) |-> J[j][i]], n))
std_each(J, n, j) ==
    LET both == [i \in Idx(2 * n) |->
                    IF i < n THEN J[j][i] ELSE RNeg(J[j][i - n])]
    IN np_sqrt(RMul(ToRat(n - 1), np_var(both, 2 * n)))
sigma_of(J, n) == np_mean([j \in Idx(n) |-> std_each(J, n, j)], n)

\* beta is kept as the power it is computed from, q ** (num / den): most of
\* these powers are irrational. 0.5 is (1/2) ** (1/1).
Power(kind, q, num, den) == [kind |-> kind, q |-> q, num |-> num, den |-> den]

set_annealing_parameters(J, n, cyc, t, ptype) ==
    LET std == [j \in Idx(n) |-> std_each(J, n, j)]
        absmean == [j \in Idx(n) |-> RAbs(mean_each(J, n, j))]
        sigma == np_mean(std, n)
        mn == IF ptype = 1
              THEN RAdd(RMul(np_max(std, n), <<1, 100>>), np_min(absmean, n))
              ELSE IF RGt(sigma, Zero) THEN RDiv(<<1, 10>>, sigma) ELSE <<1, 10>>
        mx == IF ptype = 1
              THEN RAdd(RMul(np_max(std, n), ToRat(2)), np_min(absmean, n))
              ELSE IF RGt(sigma, Zero) THEN RDiv(ToRat(10), sigma) ELSE ToRat(10)
    IN [I0_min |-> mn, I0_max |-> mx,
        beta |-> IF cyc > 1 THEN Power("ratio", RDiv(mn, mx), t, cyc - 1)
                 ELSE Power("half", <<1, 2>>, 1, 1)]

\* where the value of b = q ** (num / den) lies; x ** 0.0 is 1.0 for every x,
\* nan included
beta_class(b) ==
    IF b.num = 0 THEN "one"
    ELSE IF IsNaN(b.q) \/ RGt(Zero, b.q) THEN "nan"
    ELSE IF b.q = Zero THEN (IF b.num > 0 THEN "zero" ELSE "inf")
    ELSE IF b.q = Inf THEN (IF b.num > 0 THEN "inf" ELSE "zero")
    ELSE IF b.q = One THEN "one"
    ELSE IF RGt(One, b.q) = (b.num > 0) THEN "lt1" ELSE "gt1"

RECURSIVE Pow2(_)
Pow2(k) == IF k = 0 THEN 1 ELSE 2 * Pow2(k - 1)

\* The gain after k divisions, mn / b^k, as far as its sign, zero, infinity and
\* nan go: a positive finite gain is given as mn whatever k is.
gain_value(mn, b, k) ==
    IF k = 0 THEN mn
    ELSE IF beta_class(b) = "nan" THEN NaN
    ELSE IF beta_class(b) = "zero" THEN RDiv(mn, Zero)
    ELSE IF beta_class(b) = "inf" THEN RDiv(mn, Inf)
    ELSE mn

\* mutant: the gain is never changed
divide_by_beta_skip(mn, b, k) == k

\* `I0 /= beta` on the number of divisions. Dividing by 1.0, dividing 0.0 by
\* a positive number, and dividing nan, inf or 0.0 again leave the gain as it
\* is.
divide_by_beta(mn, b, k) ==
    IF beta_class(b) = "one" THEN k
    ELSE IF beta_class(b) \in {"nan", "zero", "inf"} THEN 1
    ELSE IF mn = Zero \/ ~IsFinite(mn) THEN k
    ELSE k + 1

\* mutant: the loop is entered once
gain_leq_max_once(mn, mx, b, k) == {k = 0}

\* The outcomes of `I0 <= I0_max` for the gain mn / b^k.
\*   k = 0, or a gain that no division changes: mn <= mx itself.
\*   b = 0.5: mn * 2^k <= mx, exactly.
\*   b = (mn/mx) ** (num/den) with 0 < mn/mx < 1:
\*       mn / b^k <= mx  iff  (mn/mx) ** (1 - k*num/den) <= 1  iff  k*num <= den
\*   and k*num >= den for mn/mx > 1. At k*num = den the two sides are
\*   equal in exact arithmetic: the floating-point gain, reached by k rounded
\*   divisions by a rounded power, lies within rounding of I0_max on either
\*   side, so both outcomes are possible.
gain_leq_max(mn, mx, b, k) ==
    IF k = 0 \/ beta_class(b) \in {"one", "nan", "zero", "inf"}
       \/ mn = Zero \/ ~IsFinite(mn)
    THEN {RLeq(gain_value(mn, b, k), mx)}
    ELSE IF b.kind = "half" THEN {RLeq(RMul(mn, ToRat(Pow2(k))), mx)}
    ELSE IF k * b.num = b.den THEN BOOLEAN
    ELSE {IF RGt(One, b.q) THEN k * b.num < b.den ELSE k * b.num > b.den}

\* the outcomes that rounding can give the comparison at a gain equal to I0_max:
\* both when some gain of the schedule equals I0_max exactly, else the one
\* value that is never consulted
roundings(mn, mx, b) ==
    IF \E k \in 1 .. MaxCount : gain_leq_max(mn, mx, b, k) = BOOLEAN
    THEN BOOLEAN ELSE {TRUE}

\* `I0 <= I0_max` as the run decides it
loop_test(mn, mx, b, r, k) ==
    IF gain_leq_max(mn, mx, b, k) = BOOLEAN THEN r
    ELSE TRUE \in gain_leq_max(mn, mx, b, k)

\* ------------------------------------------- the annealing specification
AnnealSizes == {1, 2}
AnnealWeights == {ToRat(2)}
AnnealShapes == {<<2, 1>>}
AnnealTables == {<<2, 1>>}
\* the noise drawn from [-1, 1)
NoiseValues == {<<0 - 1, 4>>, Zero, <<1, 2>>}

InitAnneal ==
    /\ pc = "new"
    /\ num_nodes \in AnnealSizes
    /\ adjacency_matrix \in {MatrixOf(num_nodes, w) : w \in [Pairs(num_nodes) -> AnnealWeights]}
    /\ crossbar_size \in AnnealShapes
    /\ device_resistance \in AnnealTables
    /\ device_levels = Len(device_resistance)
    /\ NotConstructed
    /\ NoCall
    /\ NoTCG
    /\ NoCommandLine
    /\ NoHardware
    /\ trials \in 0 .. MaxTrials
    /\ cycles \in 1 .. MaxCycles
    /\ tau \in 0 .. MaxTau
    /\ param_type \in {1, 2}
    /\ NoLocals

\* run_psa_trials up to the trial loop
RunStart ==
    /\ pc = "ready"
    /\ LET p == set_annealing_parameters(J_matrix, num_nodes, cycles, tau, param_type)
       IN /\ I0_min' = p.I0_min
          /\ I0_max' = p.I0_max
          /\ beta' = p.beta
          /\ rounding' \in roundings(p.I0_min, p.I0_max, p.beta)
    /\ cut_list' = <<>>
    /\ spin_list' = <<>>
    /\ best_cut' = ToRat(0 - 1)
    /\ best_partition' = <<>>
    /\ trial' = 0
    /\ pc' = "trial"
    /\ UNCHANGED <<others, config, solver, call, args, spin_vector, I0, step, noise, levels, results>>

\* a variant in which a trial starts from the gain the previous trial ended with
TrialBegin_carry ==
    /\ pc = "trial"
    /\ trial < trials
    /\ spin_vector' \in [Idx(num_nodes) -> {0 - 1, 1}]
    /\ step' = 0
    /\ noise' = <<>>
    /\ levels' = 0
    /\ pc' = "while"
    /\ UNCHANGED <<others, config, solver, call, args, params, trial, tally, I0>>

\* a trial starts: random spins, I0 = I0_min
TrialBegin ==
    /\ pc = "trial"
    /\ trial < trials
    /\ spin_vector' \in [Idx(num_nodes) -> {0 - 1, 1}]
    /\ I0' = 0
    /\ step' = 0
    /\ noise' = <<>>
    /\ levels' = 0
    /\ pc' = "while"
    /\ UNCHANGED <<others, config, solver, call, args, params, trial, tally>>

\* `while I0 <= I0_max` holds: the for loop starts
WhileEnter ==
    /\ pc = "while"
    /\ loop_test(I0_min, I0_max, beta, rounding, I0)
    /\ step' = 0
    /\ levels' = Min2(levels + 1, MaxCount)
    /\ pc' = "for"
    /\ UNCHANGED <<others, config, solver, call, args, params, trial, spin_vector, I0, noise, tally>>

\* a variant of the update that stores the new spins in the solver's h
Update_writes_h ==
    /\ pc = "for"
    /\ step < tau
    /\ noise' \in [Idx(num_nodes) -> NoiseValues]
    /\ spin_vector' = psa_annealing_step(spin_vector, gain_value(I0_min, beta, I0), noise')
    /\ h_vector' = spin_vector'
    /\ step' = step + 1
    /\ UNCHANGED <<pc, others, config, matrix, crossbar_partitions, J_matrix, call, args, params,
                   trial, I0, levels, tally>>

\* one pass of the for loop: noise, then psa_annealing_step
Update ==
    /\ pc = "for"
    /\ step < tau
    /\ noise' \in [Idx(num_nodes) -> NoiseValues]
    /\ spin_vector' = psa_annealing_step(spin_vector, gain_value(I0_min, beta, I0), noise')
    /\ step' = step + 1
    /\ UNCHANGED <<pc, others, config, solver, call, args, params, trial, I0, levels, tally>>

\* the for loop is over: I0 /= beta
Cool ==
    /\ pc = "for"
    /\ ~(step < tau)
    /\ I0' = divide_by_beta(I0_min, beta, I0)
    /\ pc' = "while"
    /\ UNCHANGED <<others, config, solver, call, args, params, trial, spin_vector, step, noise, levels, tally>>

\* np.where(spin_vector > 0, 1, 0): the 0/1 image of a spin vector
Image(spin) == [i \in Idx(num_nodes) |-> IF spin[i] > 0 THEN 1 ELSE 0]

\* a variant that also replaces the best record on a tie
replaces_best_geq(final_cut, best) == ~RGt(best, final_cut)

\* a variant in which every trial replaces the best record
replaces_best_always(final_cut, best) == TRUE

\* `if final_cut > best_cut`
replaces_best(final_cut, best) == RGt(final_cut, best)

\* `while I0 <= I0_max` fails: the trial's cut is recorded
TrialEnd ==
    /\ pc = "while"
    /\ ~loop_test(I0_min, I0_max, beta, rounding, I0)
    /\ LET final_cut == calculate_cut_value_rram(spin_vector)
       IN /\ cut_list' = Append(cut_list, int(final_cut))
          /\ IF replaces_best(final_cut, best_cut)
             THEN /\ best_cut' = final_cut
                  /\ best_partition' = Image(spin_vector)
             ELSE UNCHANGED <<best_cut, best_partition>>
    /\ spin_list' = Append(spin_list, spin_vector)
    /\ trial' = trial + 1
    /\ pc' = "trial"
    /\ UNCHANGED <<others, config, solver, call, args, params, spin_vector, I0, step, noise, levels, results>>

\* the statistics of a non-empty cut_list (time_list holds wall-clock times
\* and is left out)
Statistics ==
    LET cuts == [i \in Idx(Len(cut_list)) |-> ToRat(cut_list[i + 1])]
        len == Len(cut_list)
    IN [cut_list |-> cut_list,
        cut_avg |-> np_mean(cuts, len),
        cut_max |-> np_max(cuts, len),
        cut_min |-> np_min(cuts, len),
        cut_std |-> np_sqrt(np_var(cuts, len)),
        trials |-> trials,
        n_nodes |-> num_nodes,
        best_partition |-> best_partition,
        best_cut_value |-> best_cut]

Return ==
    /\ pc = "trial"
    /\ ~(trial < trials)
    /\ cut_list # <<>>
    /\ results' = Statistics
    /\ pc' = "done"
    /\ UNCHANGED <<others, config, solver, call, args, params, locals, cut_list, best_cut, best_partition, spin_list>>

\* the best record after the first k of the trials whose final spins are sl
RECURSIVE BestAfter(_, _)
BestAfter(sl, k) ==
    IF k = 0 THEN [cut |-> ToRat(0 - 1), partition |-> <<>>]
    ELSE LET b == BestAfter(sl, k - 1)
             final_cut == calculate_cut_value_rram(sl[k])
         IN IF replaces_best(final_cut, b.cut)
            THEN [cut |-> final_cut, partition |-> Image(sl[k])]
            ELSE b

\* what run_psa_trials returns when its trials end with the spins sl, in
\* that order (a non-empty sl)
aggregate(sl) ==
    LET len == Len(sl)
        ints == [k \in 1 .. len |-> int(calculate_cut_value_rram(sl[k]))]
        cuts == [i \in Idx(len) |-> ToRat(ints[i + 1])]
        b == BestAfter(sl, len)
    IN [cut_list |-> ints,
        cut_avg |-> np_mean(cuts, len),
        cut_max |-> np_max(cuts, len),
        cut_min |-> np_min(cuts, len),
        cut_std |-> np_sqrt(np_var(cuts, len)),
        trials |-> trials,
        n_nodes |-> num_nodes,
        best_partition |-> b.partition,
        best_cut_value |-> b.cut]

\* np.max of an empty list raises ValueError
ReturnRaises ==
    /\ pc = "trial"
    /\ ~(trial < trials)
    /\ cut_list = <<>>
    /\ pc' = "raised"
    /\ UNCHANGED <<others, config, solver, call, run>>

Next ==
    \/ Construct
    \/ RunStart
    \/ TrialBegin
    \/ WhileEnter
    \/ Update
    \/ Cool
    \/ TrialEnd
    \/ Return
    \/ ReturnRaises

Spec == InitAnneal /\ [][Next]_vars

\* every step of Next moves the program: it changes pc or step
control == <<pc, step>>
Locations == {"new", "ready", "trial", "while", "for", "done", "raised"}

\* the program moves, as long as it has neither returned nor raised
Proceed ==
    /\ pc \notin {"done", "raised"}
    /\ pc' \in Locations
    /\ step' \in 0 .. MaxTau

\* The interpreter runs the one thread of the program on until it returns or
\* raises. This is weak fairness of Next: Next can be taken at every location
\* but "done" and "raised", and every step of it changes pc or step.
FairSpec == InitAnneal /\ [][Next]_vars /\ WF_control(Proceed)

\* ------------------------------------ the specification of weighted graphs
\* Graphs with fractional and signed weights, under one schedule (tau = 1,
\* cycles = 2): two nodes joined by an edge of weight 3/2 or -2, and three
\* nodes with the weights 3/2, -2 and 1. The three-node graph runs at most one
\* trial.
WeightGraphs ==
    {[n |-> 2, W |-> MatrixOf(2, [q \in Pairs(2) |-> w])] : w \in {<<3, 2>>, ToRat(0 - 2)}}
    \cup {[n |-> 3, W |-> MatrixOf(3, (<<0, 1>> :> <<3, 2>>) @@ (<<0, 2>> :> ToRat(0 - 2))
                                         @@ (<<1, 2>> :> One))]}

InitWeights ==
    /\ pc = "new"
    /\ \E g \in WeightGraphs : num_nodes = g.n /\ adjacency_matrix = g.W
    /\ crossbar_size \in AnnealShapes
    /\ device_resistance \in AnnealTables
    /\ device_levels = Len(device_resistance)
    /\ NotConstructed
    /\ NoCall
    /\ NoTCG
    /\ NoCommandLine
    /\ NoHardware
    /\ trials \in 0 .. MaxTrials
    /\ (num_nodes > 2) => (trials <= 1)
    /\ cycles = 2
    /\ tau = 1
    /\ param_type \in {1, 2}
    /\ NoLocals

SpecWeights == InitWeights /\ [][Next]_vars

\* ------------------------------------------------- the quantizer on its own
\* signed and unsigned weights whose normalisation is exact in float32: the
\* range max - min of the matrix (zero diagonal included) is 0, 1, 2 or 4
QuantSizes == {2, 3}
QuantWeights == {ToRat(0 - 2), ToRat(0 - 1), Zero, One, ToRat(2), ToRat(4)}
QuantTables == {<<5>>, <<3, 1>>, <<4, 2, 1>>, <<8, 4, 2, 1>>}
ExactRange(W, n) == RSub(MatMax(W, n), MatMin(W, n)) \in {Zero, One, ToRat(2), ToRat(4)}
QuantMatrices(n) ==
    {W \in {MatrixOf(n, w) : w \in [Pairs(n) -> QuantWeights]} : ExactRange(W, n)}

InitQuant ==
    /\ pc = "new"
    /\ num_nodes \in QuantSizes
    /\ adjacency_matrix \in QuantMatrices(num_nodes)
    /\ crossbar_size = <<2, 2>>
    /\ device_resistance \in QuantTables
    /\ device_levels = Len(device_resistance)
    /\ NotConstructed
    /\ NoCall
    /\ NoTCG
    /\ NoCommandLine
    /\ NoHardware
    /\ NoRun

SpecQuant == InitQuant /\ [][Construct]_vars

\* ------------------------------------------- configurations of every kind
\* RRAMpSA.__init__ on a configuration that makes quantize_weights or
\* partition_matrix_to_crossbars raise: no solver is constructed
ConstructRaises ==
    /\ pc = "new"
    /\ quantize_raises(device_levels, device_resistance) \/ partition_raises(crossbar_size)
    /\ pc' = "raised"
    /\ UNCHANGED <<others, config, solver, call, run>>

\* Device_Level and the length of Device_Resistance are read independently
\* from the configuration file, and so are the two numbers of Xbar_Size
ConfigLevels == (0 - 1) .. 4
ConfigTables == {<<2, 1>>, <<4, 2, 1>>}
ConfigShapes == (0 .. 2) \X (0 .. 2)

InitConfig ==
    /\ pc = "new"
    /\ num_nodes \in {1, 2}
    /\ adjacency_matrix = MatrixOf(num_nodes, [q \in Pairs(num_nodes) |-> ToRat(2)])
    /\ crossbar_size \in ConfigShapes
    /\ device_resistance \in ConfigTables
    /\ device_levels \in ConfigLevels
    /\ NotConstructed
    /\ NoCall
    /\ NoTCG
    /\ NoCommandLine
    /\ NoHardware
    /\ trials \in {0, 1}
    /\ cycles = 2
    /\ tau = 1
    /\ param_type \in {1, 2}
    /\ NoLocals

NextConfig ==
    \/ Next
    \/ ConstructRaises

SpecConfig == InitConfig /\ [][NextConfig]_vars

\* ------------------------------------------------ the demonstration run
\* demo_basic_rram_psa: the triangle with unit weights, trials=10,
\* cycles=100, tau=1, param_type=2
DemoTrials == 10
DemoCycles == 100

InitDemo ==
    /\ pc = "new"
    /\ num_nodes = 3
    /\ adjacency_matrix = MatrixOf(3, [q \in Pairs(3) |-> One])
    /\ crossbar_size \in {<<2, 2>>, <<3, 3>>}
    /\ device_resistance \in AnnealTables
    /\ device_levels = Len(device_resistance)
    /\ NotConstructed
    /\ NoCall
    /\ NoTCG
    /\ NoCommandLine
    /\ NoHardware
    /\ trials = DemoTrials
    /\ cycles = DemoCycles
    /\ tau = 1
    /\ param_type = 2
    /\ NoLocals

\* the random source, restricted to the runs in which every noise vector
\* drawn is positive in every component; the initial spins are free
UpdateSeeded == Update /\ noise' = [i \in Idx(num_nodes) |-> <<1, 2>>]

NextDemo ==
    \/ Construct
    \/ RunStart
    \/ TrialBegin
    \/ WhileEnter
    \/ UpdateSeeded
    \/ Cool
    \/ TrialEnd
    \/ Return

SpecDemo == InitDemo /\ [][NextDemo]_vars

\* ------------------------------------------------------------- MaxCutTCG
\* lists are functions on 0 .. len-1; the two inner one-element lists of
\* NetStruct[i] are one-element sequences, so NetStruct[i][0][0] of the code
\* is NetStruct[i][1][1] here
Inputindex(i) == IF i = 0 THEN <<0 - 1>> ELSE <<i - 1>>
Outputindex(i, k) == IF i < k - 1 THEN <<i + 1>> ELSE <<>>

tile_info(layer_info, i, k) ==
    [type |-> "fc", startid |-> i, mx |-> 1, my |-> 1, max_group |-> 1,
     max_row |-> layer_info.input_size, max_column |-> layer_info.output_size,
     max_PE |-> 1, tilenum |-> 1,
     Inputindex |-> Inputindex(i), Outputindex |-> Outputindex(i, k),
     is_branchin |-> 0 - 1, is_branchout |-> 0 - 1]

layer_dict(layer_info, i, k) ==
    IF i = 0
    THEN [type |-> "conv",
          Infeature |-> layer_info.input_size, Outfeature |-> layer_info.output_size,
          Weightbit |-> 8, Inputbit |-> 8, outputbit |-> 8,
          Inputsize |-> <<1, layer_info.input_size>>,
          Outputsize |-> <<1, layer_info.output_size>>,
          Inputindex |-> Inputindex(i), Outputindex |-> Outputindex(i, k),
          Layerindex |-> i,
          Kernelsize |-> 1, Stride |-> 1,
          Inputchannel |-> layer_info.input_size,
          Outputchannel |-> layer_info.output_size,
          Padding |-> 0]
    ELSE [type |-> "fc",
          Infeature |-> layer_info.input_size, Outfeature |-> layer_info.output_size,
          Weightbit |-> 8, Inputbit |-> 8, outputbit |-> 8,
          Inputsize |-> <<1, layer_info.input_size>>,
          Outputsize |-> <<1, layer_info.output_size>>,
          Inputindex |-> Inputindex(i), Outputindex |-> Outputindex(i, k),
          Layerindex |-> i]

\* problem structures of 0 to MaxLayers layers, each with its two sizes
LayerInfos == [input_size : {1, 2}, output_size : {1, 2}]
Structures == UNION {[Idx(k) -> LayerInfos] : k \in 0 .. MaxLayers}

InitTCG ==
    /\ pc = "tcg_new"
    /\ num_nodes = 0 /\ adjacency_matrix = <<>> /\ crossbar_size = <<>>
    /\ device_levels = 0 /\ device_resistance = <<>>
    /\ NotConstructed
    /\ NoCall
    /\ maxcut_structure \in Structures
    /\ layer_num = 0 /\ layer_tileinfo = <<>>
    /\ NetStruct = <<>> /\ inLayer_distance = <<>> /\ transLayer_distance = <<>>
    /\ NoCommandLine
    /\ NoHardware
    /\ NoRun

\* MaxCutTCG.__init__
TCGInit ==
    /\ pc = "tcg_new"
    /\ LET k == Cardinality(DOMAIN maxcut_structure)
       IN /\ layer_num' = k
          /\ layer_tileinfo' = [i \in Idx(k) |-> tile_info(maxcut_structure[i], i, k)]
          /\ NetStruct' = [i \in Idx(k) |-> <<<<layer_dict(maxcut_structure[i], i, k)>>>>]
    /\ pc' = "tcg"
    /\ UNCHANGED <<config, solver, call, run, cli, hardware, maxcut_structure,
                   inLayer_distance, transLayer_distance>>

\* MaxCutTCG.mapping_net (layer_split, an empty list per layer, is left out)
mapping_net ==
    /\ pc \in {"tcg", "unmapped"}
    /\ inLayer_distance' = [i \in Idx(layer_num) |-> [j \in Idx(layer_num) |-> 0]]
    /\ transLayer_distance' = [i \in Idx(layer_num) |-> [j \in Idx(layer_num) |-> 0]]
    /\ layer_tileinfo' = [i \in Idx(layer_num) |->
            [layer_tileinfo[i] EXCEPT !.max_PE = 1,
                                      !.max_row = maxcut_structure[i].input_size,
                                      !.max_column = maxcut_structure[i].output_size]]
    /\ pc' = "net_mapped"
    /\ UNCHANGED <<config, solver, call, run, cli, hardware, maxcut_structure, layer_num,
                   NetStruct>>

\* a variant that leaves the distance between different layers at 0
transfer_distance_zero(i, j) == 0

\* the distance calculate_transfer_distance assigns to the pair (i, j)
transfer_distance(i, j) == IF i = j THEN 0 ELSE 1

\* MaxCutTCG.calculate_transfer_distance after mapping_net
calculate_transfer_distance ==
    /\ pc = "net_mapped"
    /\ inLayer_distance' = [i \in Idx(layer_num) |-> [j \in Idx(layer_num) |->
                                transfer_distance(i, j)]]
    /\ transLayer_distance' = [i \in Idx(layer_num) |-> [j \in Idx(layer_num) |->
                                   transfer_distance(i, j)]]
    /\ pc' = "distances"
    /\ UNCHANGED <<config, solver, call, run, cli, hardware, maxcut_structure, layer_num,
                   layer_tileinfo, NetStruct>>

\* calculate_transfer_distance before mapping_net: the two attributes do not
\* exist, __getattr__ hands out a fresh matrix at every read, and the
\* assignments are lost
calculate_transfer_distance_unmapped ==
    /\ pc = "tcg"
    /\ pc' = "unmapped"
    /\ UNCHANGED <<config, solver, call, run, others>>

NextTCG ==
    \/ TCGInit
    \/ mapping_net
    \/ calculate_transfer_distance
    \/ calculate_transfer_distance_unmapped

SpecTCG == InitTCG /\ [][NextTCG]_vars

\* ------------------------------------------- the command line of maxcut_main
\* a token is the sequence of its characters, so that an abbreviated option
\* is a prefix of the option it stands for
IsPrefix(p, t) == Len(p) <= Len(t) /\ SubSeq(t, 1, Len(p)) = p
Digits == {"0", "1", "2", "3", "4", "5", "6", "7", "8", "9"}
DigitValue(c) == CHOOSE d \in 0 .. 9 : <<"0", "1", "2", "3", "4", "5", "6", "7", "8", "9">>[d + 1] = c
IsDigits(v) == Len(v) >= 1 /\ \A i \in 1 .. Len(v) : v[i] \in Digits
RECURSIVE DigitsValue(_, _)
DigitsValue(v, k) == IF k = 0 THEN 0 ELSE 10 * DigitsValue(v, k - 1) + DigitValue(v[k])

\* the parser's add_argument calls
parser_options == {
    [dest |-> "file_auto_delete", flags |-> {<<"-", "A", "u", "t", "o", "D", "e", "l", "e", "t", "e">>, <<"-", "-", "f", "i", "l", "e", "_", "a", "u", "t", "o", "_", "d", "e", "l", "e", "t", "e">>},
     nargs |-> 1, type |-> "str", choices |-> {}, required |-> FALSE],
    [dest |-> "hardware_description", flags |-> {<<"-", "H", "W", "d", "e", "s">>, <<"-", "-", "h", "a", "r", "d", "w", "a", "r", "e", "_", "d", "e", "s", "c", "r", "i", "p", "t", "i", "o", "n">>},
     nargs |-> 1, type |-> "str", choices |-> {}, required |-> FALSE],
    [dest |-> "graph_file", flags |-> {<<"-", "G", "r", "a", "p", "h">>, <<"-", "-", "g", "r", "a", "p", "h", "_", "f", "i", "l", "e">>},
     nargs |-> 1, type |-> "str", choices |-> {}, required |-> TRUE],
    [dest |-> "algorithm", flags |-> {<<"-", "A", "l", "g">>, <<"-", "-", "a", "l", "g", "o", "r", "i", "t", "h", "m">>},
     nargs |-> 1, type |-> "str", choices |-> {<<"r", "r", "a", "m", "_", "p", "s", "a">>}, required |-> FALSE],
    [dest |-> "disable_hardware_modeling", flags |-> {<<"-", "D", "i", "s", "H", "W">>, <<"-", "-", "d", "i", "s", "a", "b", "l", "e", "_", "h", "a", "r", "d", "w", "a", "r", "e", "_", "m", "o", "d", "e", "l", "i", "n", "g">>},
     nargs |-> 0, type |-> "str", choices |-> {}, required |-> FALSE],
    [dest |-> "device", flags |-> {<<"-", "D">>, <<"-", "-", "d", "e", "v", "i", "c", "e">>},
     nargs |-> 1, type |-> "str", choices |-> {}, required |-> FALSE],
    [dest |-> "disable_module_output", flags |-> {<<"-", "D", "i", "s", "M", "o", "d", "O", "u", "t">>, <<"-", "-", "d", "i", "s", "a", "b", "l", "e", "_", "m", "o", "d", "u", "l", "e", "_", "o", "u", "t", "p", "u", "t">>},
     nargs |-> 0, type |-> "str", choices |-> {}, required |-> FALSE],
    [dest |-> "disable_layer_output", flags |-> {<<"-", "D", "i", "s", "L", "a", "y", "O", "u", "t">>, <<"-", "-", "d", "i", "s", "a", "b", "l", "e", "_", "l", "a", "y", "e", "r", "_", "o", "u", "t", "p", "u", "t">>},
     nargs |-> 0, type |-> "str", choices |-> {}, required |-> FALSE],
    [dest |-> "rram_cycles", flags |-> {<<"-", "-", "r", "r", "a", "m", "_", "c", "y", "c", "l", "e", "s">>},
     nargs |-> 1, type |-> "int", choices |-> {}, required |-> FALSE],
    [dest |-> "rram_trials", flags |-> {<<"-", "-", "r", "r", "a", "m", "_", "t", "r", "i", "a", "l", "s">>},
     nargs |-> 1, type |-> "int", choices |-> {}, required |-> FALSE],
    [dest |-> "rram_tau", flags |-> {<<"-", "-", "r", "r", "a", "m", "_", "t", "a", "u">>},
     nargs |-> 1, type |-> "int", choices |-> {}, required |-> FALSE],
    [dest |-> "rram_param", flags |-> {<<"-", "-", "r", "r", "a", "m", "_", "p", "a", "r", "a", "m">>},
     nargs |-> 1, type |-> "int", choices |-> {}, required |-> FALSE]}

\* the namespace of the defaults (graph_file, required, has none)
parser_defaults ==
    ("file_auto_delete" :> TRUE) @@
    ("hardware_description" :> <<"S", "i", "m", "C", "o", "n", "f", "i", "g", "_", "M", "a", "x", "C", "u", "t", ".", "i", "n", "i">>) @@
    ("graph_file" :> <<>>) @@
    ("algorithm" :> <<"r", "r", "a", "m", "_", "p", "s", "a">>) @@
    ("disable_hardware_modeling" :> FALSE) @@
    ("device" :> 0) @@
    ("disable_module_output" :> FALSE) @@
    ("disable_layer_output" :> FALSE) @@
    ("rram_cycles" :> 200) @@
    ("rram_trials" :> 50) @@
    ("rram_tau" :> 1) @@
    ("rram_param" :> 2)

\* argparse takes a token for an option when it starts with "-" and is not a
\* negative number (the parser has no option that looks like one)
looks_like_option(tok) ==
    /\ Len(tok) >= 2
    /\ tok[1] = "-"
    /\ ~IsDigits(SubSeq(tok, 2, Len(tok)))

\* the options a token names: the one it spells out, or else every option it
\* abbreviates
option_tuples(tok) ==
    LET exact == {o \in parser_options : tok \in o.flags}
    IN IF exact # {} THEN exact
       ELSE {o \in parser_options : \E f \in o.flags : IsPrefix(tok, f)}

\* type=int accepts a string of digits (signs, blanks and underscores are
\* not in the command lines drawn)
type_accepts(o, v) == o.type = "int" => IsDigits(v)
type_convert(o, v) == IF o.type = "int" THEN DigitsValue(v, Len(v)) ELSE v

\* a variant without the check of choices
choices_accept_any(o, v) == TRUE

choices_accept(o, v) == o.choices # {} => v \in o.choices

\* parse_args from the i-th token on: the namespace, or an error where
\* ArgumentParser.error exits with status 2. seen holds the options met,
\* extras tells whether an unrecognized token has been passed over.
parser_error == [error |-> TRUE, namespace |-> <<>>]
RECURSIVE parse_from(_, _, _, _, _)
parse_from(tokens, i, ns, seen, extras) ==
    IF i > Len(tokens)
    THEN IF extras \/ \E o \in parser_options : o.required /\ o.dest \notin seen
         THEN parser_error ELSE [error |-> FALSE, namespace |-> ns]
    ELSE IF ~looks_like_option(tokens[i])
    THEN parse_from(tokens, i + 1, ns, seen, TRUE)
    ELSE LET found == option_tuples(tokens[i])
         IN IF Cardinality(found) > 1 THEN parser_error
            ELSE IF found = {} THEN parse_from(tokens, i + 1, ns, seen, TRUE)
            ELSE LET o == CHOOSE x \in found : TRUE
                 IN IF o.nargs = 0
                    THEN parse_from(tokens, i + 1, [ns EXCEPT ![o.dest] = TRUE],
                                    seen \cup {o.dest}, extras)
                    ELSE IF i + 1 > Len(tokens) \/ looks_like_option(tokens[i + 1])
                    THEN parser_error
                    ELSE IF ~type_accepts(o, tokens[i + 1]) \/ ~choices_accept(o, tokens[i + 1])
                    THEN parser_error
                    ELSE parse_from(tokens, i + 2,
                                    [ns EXCEPT ![o.dest] = type_convert(o, tokens[i + 1])],
                                    seen \cup {o.dest}, extras)

parse_args(tokens) == parse_from(tokens, 1, parser_defaults, {}, FALSE)

\* the command lines of test_complete_system.py (the graph file's name
\* shortened to g)
test_rram_psa_algorithm ==
    <<<<"-", "-", "g", "r", "a", "p", "h", "_", "f", "i", "l", "e">>,
      <<"g">>,
      <<"-", "-", "a", "l", "g", "o", "r", "i", "t", "h", "m">>,
      <<"r", "r", "a", "m", "_", "p", "s", "a">>,
      <<"-", "-", "p", "s", "a", "v", "_", "t", "r", "i", "a", "l", "s">>,
      <<"5">>,
      <<"-", "-", "p", "s", "a", "v", "_", "c", "y", "c", "l", "e", "s">>,
      <<"5", "0">>,
      <<"-", "-", "d", "i", "s", "a", "b", "l", "e", "_", "h", "a", "r", "d", "w", "a", "r", "e", "_", "m", "o", "d", "e", "l", "i", "n", "g">>>>
test_goemans_williamson ==
    <<<<"-", "-", "g", "r", "a", "p", "h", "_", "f", "i", "l", "e">>,
      <<"g">>,
      <<"-", "-", "a", "l", "g", "o", "r", "i", "t", "h", "m">>,
      <<"g", "o", "e", "m", "a", "n", "s", "_", "w", "i", "l", "l", "i", "a", "m", "s", "o", "n">>,
      <<"-", "-", "i", "t", "e", "r", "a", "t", "i", "o", "n", "s">>,
      <<"5">>,
      <<"-", "-", "d", "i", "s", "a", "b", "l", "e", "_", "h", "a", "r", "d", "w", "a", "r", "e", "_", "m", "o", "d", "e", "l", "i", "n", "g">>>>
test_greedy ==
    <<<<"-", "-", "g", "r", "a", "p", "h", "_", "f", "i", "l", "e">>,
      <<"g">>,
      <<"-", "-", "a", "l", "g", "o", "r", "i", "t", "h", "m">>,
      <<"g", "r", "e", "e", "d", "y">>,
      <<"-", "-", "i", "t", "e", "r", "a", "t", "i", "o", "n", "s">>,
      <<"5">>,
      <<"-", "-", "d", "i", "s", "a", "b", "l", "e", "_", "h", "a", "r", "d", "w", "a", "r", "e", "_", "m", "o", "d", "e", "l", "i", "n", "g">>>>
TestInvocations == {test_rram_psa_algorithm, test_goemans_williamson, test_greedy}

\* other command lines: up to three of these option groups, in this order
OptionGroups ==
    <<<<<<"-", "-", "g", "r", "a", "p", "h", "_", "f", "i", "l", "e">>, <<"g">>>>,
      <<<<"-", "-", "g", "r", "a", "p", "h">>, <<"g">>>>,
      <<<<"-", "-", "a", "l", "g", "o", "r", "i", "t", "h", "m">>, <<"r", "r", "a", "m", "_", "p", "s", "a">>>>,
      <<<<"-", "-", "a", "l", "g", "o", "r", "i", "t", "h", "m">>, <<"g", "r", "e", "e", "d", "y">>>>,
      <<<<"-", "-", "a", "l", "g", "o", "r", "i", "t", "h", "m">>, <<"g", "o", "e", "m", "a", "n", "s", "_", "w", "i", "l", "l", "i", "a", "m", "s", "o", "n">>>>,
      <<<<"-", "-", "p", "s", "a", "v", "_", "t", "r", "i", "a", "l", "s">>, <<"5">>>>,
      <<<<"-", "-", "p", "s", "a", "v", "_", "c", "y", "c", "l", "e", "s">>, <<"5", "0">>>>,
      <<<<"-", "-", "i", "t", "e", "r", "a", "t", "i", "o", "n", "s">>, <<"5">>>>,
      <<<<"-", "-", "r", "r", "a", "m", "_", "t", "r", "i", "a", "l", "s">>, <<"5">>>>,
      <<<<"-", "-", "r", "r", "a", "m", "_", "t">>, <<"5">>>>,
      <<<<"-", "-", "r", "r", "a", "m", "_", "c", "y", "c", "l", "e", "s">>, <<"x">>>>,
      <<<<"-", "-", "d", "i", "s", "a", "b", "l", "e", "_", "h", "a", "r", "d", "w", "a", "r", "e", "_", "m", "o", "d", "e", "l", "i", "n", "g">>>>,
      <<<<"-", "-", "r", "r", "a", "m", "_", "t", "a", "u">>>>>>
RECURSIVE Flatten(_, _)
Flatten(S, k) ==
    IF k = 0 THEN <<>>
    ELSE Flatten(S, k - 1) \o (IF k \in S THEN OptionGroups[k] ELSE <<>>)
CommandLines ==
    {Flatten(S, Len(OptionGroups)) :
        S \in {T \in SUBSET (1 .. Len(OptionGroups)) : Cardinality(T) <= 3}}

InitCLI ==
    /\ pc = "cli"
    /\ num_nodes = 0 /\ adjacency_matrix = <<>> /\ crossbar_size = <<>>
    /\ device_levels = 0 /\ device_resistance = <<>>
    /\ NotConstructed
    /\ NoCall
    /\ NoTCG
    /\ argv \in TestInvocations \cup CommandLines
    /\ namespace = <<>>
    /\ NoHardware
    /\ NoRun

\* args = parser.parse_args() returns
ParseArgs ==
    /\ pc = "cli"
    /\ ~parse_args(argv).error
    /\ namespace' = parse_args(argv).namespace
    /\ pc' = "parsed"
    /\ UNCHANGED <<config, solver, call, run, tcg, hardware, argv>>

\* parser.parse_args() prints the usage and exits with status 2
ParseArgsError ==
    /\ pc = "cli"
    /\ parse_args(argv).error
    /\ pc' = "argerror"
    /\ UNCHANGED <<config, solver, call, run, others>>

NextCLI ==
    \/ ParseArgs
    \/ ParseArgsError

SpecCLI == InitCLI /\ [][NextCLI]_vars

\* --------------------------------------------------- psav_adapter: J as int8
\* np.where(resistance_matrix > 0, 1.0 / resistance_matrix, 0.0)
adapter_conductance(r) == IF r > 0 THEN RRecip(ToRat(r)) ELSE Zero

\* astype(np.int8) of an integral float
int8(x) == ((x + 128) % 256) - 128

\* J before the clean-up loop: -round(norm * 127) as int8
J_quantized(R, n) ==
    LET g == [i \in Idx(n) |-> [j \in Idx(n) |-> adapter_conductance(R[i][j])]]
        max_g == CHOOSE m \in {g[i][j] : i, j \in Idx(n)} :
                     \A i, j \in Idx(n) : RLeq(g[i][j], m)
        norm == [i \in Idx(n) |-> [j \in Idx(n) |->
                    IF RLeq(max_g, Zero) THEN Zero ELSE RDiv(g[i][j], max_g)]]
    IN [i \in Idx(n) |-> [j \in Idx(n) |->
           int8(0 - RoundHalfEven(RMul(norm[i][j], ToRat(127))))]]

\* a variant that always takes the entry below the diagonal
symmetric_value_lower(J, i, j) == J[j][i]

\* `val = J[i, j] if J[i, j] != 0 else J[j, i]`
symmetric_value(J, i, j) == IF J[i][j] # 0 THEN J[i][j] ELSE J[j][i]

\* the inner loop `for j in range(i+1, n)` from j on
RECURSIVE CleanRow(_, _, _, _)
CleanRow(J, i, j, n) ==
    IF j >= n THEN J
    ELSE LET val == symmetric_value(J, i, j)
         IN CleanRow([J EXCEPT ![i][j] = val, ![j][i] = val], i, j + 1, n)

\* the outer loop `for i in range(n)` from i on
RECURSIVE CleanLoop(_, _, _)
CleanLoop(J, i, n) ==
    IF i >= n THEN J
    ELSE CleanLoop(CleanRow([J EXCEPT ![i][i] = 0], i, i + 1, n), i + 1, n)

to_int8_J_from_rram(n, resistance_matrix) == CleanLoop(J_quantized(resistance_matrix, n), 0, n)

\* resistance matrices of every kind, symmetric or not
AdapterMatrices(n) ==
    IF n = 2 THEN [Idx(2) -> [Idx(2) -> {0 - 1, 0, 1, 2, 3, 5}]]
    ELSE [Idx(n) -> [Idx(n) -> {0, 1, 2}]]

InitAdapter ==
    /\ pc = "new"
    /\ num_nodes \in {2, 3}
    /\ adjacency_matrix = MatrixOf(num_nodes, [q \in Pairs(num_nodes) |-> One])
    /\ crossbar_size = <<2, 2>>
    /\ device_resistance = <<2, 1>>
    /\ device_levels = 2
    /\ matrix \in AdapterMatrices(num_nodes)
    /\ crossbar_partitions = <<>>
    /\ J_matrix = <<>>
    /\ h_vector = <<>>
    /\ NoCall
    /\ NoTCG
    /\ NoCommandLine
    /\ NoHardware
    /\ NoRun

\* J = _to_int8_J_from_rram(W, R); h = np.zeros((n, 1), dtype=np.int8)
MapJ ==
    /\ pc = "new"
    /\ J_matrix' = to_int8_J_from_rram(num_nodes, matrix)
    /\ h_vector' = [i \in Idx(num_nodes) |-> 0]
    /\ pc' = "mapped"
    /\ UNCHANGED <<others, config, matrix, crossbar_partitions, call, run>>

SpecAdapter == InitAdapter /\ [][MapJ]_vars

\* ------------------------------------------------ claims on the annealing
Spins == [Idx(num_nodes) -> {0 - 1, 1}]
UpdateStep == pc = "for" /\ step' = step + 1

\* the update rule, spin by spin, on the local field of the spins before the
\* step and the noise drawn for the step
C6_Rule ==
    \A D \in {calculate_local_field_rram(spin_vector)} :
    \A i \in Idx(num_nodes) :
    \A sum \in {RAdd(np_tanh(RMul(gain_value(I0_min, beta, I0), D[i])), noise'[i])} :
        /\ spin_vector'[i] \in {0 - 1, 1}
        /\ (spin_vector'[i] = 1) <=> RGt(sum, Zero)
        /\ (sum = Zero) => (spin_vector'[i] = 0 - 1)

\* C6: once a trial has drawn its spins, every spin is -1 or +1 at all times,
\* and an update sets all spins at once, spin i to +1 if
\* tanh(I0 * D_i) + noise_i > 0 and to -1 otherwise (so to -1 when the sum is
\* exactly 0), with D the local field of the spins before the update.
C6_SpinUpdate ==
    /\ [](spin_vector = <<>> \/ spin_vector \in Spins)
    /\ [][UpdateStep => C6_Rule]_vars

\* an update of the one-node graph (its field is 0, so the sum is the noise)
\* that drew noise 0: the sum is exactly 0 and the spin is -1
C6_Witness ==
    /\ pc = "for" /\ step > 0 /\ num_nodes = 1
    /\ ~IsNaN(gain_value(I0_min, beta, I0))
    /\ noise[0] = Zero /\ spin_vector[0] = 0 - 1

\* I0_min > 0, 0 < beta < 1 and tau >= 1
GoodSchedule ==
    /\ RGt(I0_min, Zero) /\ IsFinite(I0_min)
    /\ beta_class(beta) = "lt1"
    /\ tau >= 1

\* I0_min <= I0 for the gain after k divisions: it is I0_min itself, or it has
\* grown from a positive I0_min by divisions by a beta below 1
gain_geq_min(k) ==
    /\ ~IsNaN(gain_value(I0_min, beta, k))
    /\ \/ k = 0
       \/ RGt(I0_min, Zero) /\ IsFinite(I0_min) /\ beta_class(beta) = "lt1"

C7_Steps ==
    /\ (pc = "trial" /\ pc' = "while")
           => (I0' = 0 /\ gain_value(I0_min, beta, I0') = I0_min)
    /\ (pc = "while" /\ pc' = "for") => (step' = 0)
    /\ (pc = "for" /\ pc' = "while")
           => /\ step = tau
              /\ I0' = divide_by_beta(I0_min, beta, I0)
              /\ GoodSchedule => (I0' > I0)
    /\ (pc = "for" /\ (spin_vector' # spin_vector \/ step' # step))
           => /\ step < tau /\ step' = step + 1
              /\ I0' = I0
              /\ TRUE \in gain_leq_max(I0_min, I0_max, beta, I0)
              /\ gain_geq_min(I0)
    /\ (pc \in {"while", "trial"}) => (spin_vector' = spin_vector \/ pc' = "while")

C7_Leaves ==
    (pc = "while" /\ GoodSchedule)
        ~> /\ pc = "trial"
           /\ FALSE \in gain_leq_max(I0_min, I0_max, beta, I0)
           /\ ~IsNaN(gain_value(I0_min, beta, I0))

\* C7: a trial's gain starts at I0_min; each gain level makes exactly tau spin
\* updates and then the gain is divided by beta; spins are updated only while
\* I0_min <= I0 <= I0_max; and with I0_min > 0, 0 < beta < 1 and tau >= 1 the
\* gain grows at every level and the trial leaves the loop, the comparison
\* I0 <= I0_max having failed on a gain that is a number.
C7_GainSchedule == [][C7_Steps]_vars /\ C7_Leaves

\* a trial that went through several levels of two updates each has ended
C7_Witness ==
    /\ pc = "trial" /\ trial >= 1
    /\ GoodSchedule /\ tau = 2 /\ levels >= 2 /\ I0 >= 2

\* beta >= 1 or I0_max <= I0_min
Runaway ==
    \/ beta_class(beta) \in {"one", "gt1"}
    \/ RLeq(I0_max, I0_min)

\* C8: with beta >= 1 or I0_max <= I0_min a trial that has reached its gain
\* loop leaves it: the trial ends, or an error is raised.
C8_NoHang == (pc = "while" /\ Runaway) ~> (pc \in {"trial", "raised"})

LastLevels == pc = "trial" /\ trial >= 1

\* C9 as stated: for tau >= 1 and cycles >= 1 the loop of a trial that has
\* ended ran exactly `cycles` times.
C9_RunsCyclesTimes ==
    (LastLevels /\ tau >= 1 /\ cycles >= 1) => (levels = cycles)

\* C9: for tau >= 1 the loop of a trial that has ended ran
\*   - cycles >= 2 and 0 < I0_min < I0_max: (cycles-1) \div tau + 1 times if
\*     tau does not divide cycles-1, and that many or one less if it does (the
\*     last gain is I0_max up to rounding);
\*   - cycles >= 2 and I0_min = I0_max = 0 (beta is nan): once;
\*   - cycles = 1 (beta is 0.5) and I0_min > 0: once for every doubling of
\*     I0_min that stays within I0_max, which is 7 times in mode 2.
C9_LevelCount ==
    (LastLevels /\ tau >= 1) =>
        /\ (cycles >= 2 /\ RGt(I0_min, Zero) /\ RGt(I0_max, I0_min)) =>
               LET m == (cycles - 1) \div tau
               IN IF (cycles - 1) % tau = 0 THEN levels \in {m, m + 1}
                  ELSE levels = m + 1
        /\ (cycles >= 2 /\ I0_min = Zero /\ I0_max = Zero) => (levels = 1)
        /\ (cycles = 1 /\ RGt(I0_min, Zero)) =>
               /\ levels >= 1
               /\ RLeq(RMul(I0_min, ToRat(Pow2(levels - 1))), I0_max)
               /\ RGt(RMul(I0_min, ToRat(Pow2(levels))), I0_max)
               /\ (param_type = 2) => (levels = 7)

\* two updates per level, and fewer levels than cycles
C9_Witness ==
    /\ LastLevels /\ tau = 2 /\ cycles >= 2
    /\ RGt(I0_min, Zero) /\ levels >= 1 /\ levels < cycles

\* C10: once the parameters are computed, a sigma that is not positive gives
\* I0_min = 0.1 and I0_max = 10, in mode 1 as in mode 2.
C10_Fallback ==
    (pc \notin {"new", "ready"} /\ ~RGt(sigma_of(J_matrix, num_nodes), Zero))
        => (I0_min = <<1, 10>> /\ I0_max = ToRat(10))

\* ------------------------------------------------- claims on the results
\* the edges whose two endpoints have different spins
CutPairs(spin) == {q \in Pairs(num_nodes) : spin[q[1]] # spin[q[2]]}

\* the total weight of a set of edges
RECURSIVE WeightOf(_)
WeightOf(ps) ==
    IF ps = {} THEN Zero
    ELSE LET q == CHOOSE x \in ps : TRUE
         IN RAdd(adjacency_matrix[q[1]][q[2]], WeightOf(ps \ {q}))

\* C11: for every spin vector calculate_cut_value_rram returns the total
\* original weight of the edges whose endpoints have different spins, and the
\* cut a trial records is that value (truncated by int) of its final spins.
C11_CutValue ==
    (pc = "trial" /\ trial >= 1) =>
        /\ \A s \in Spins : calculate_cut_value_rram(s) = WeightOf(CutPairs(s))
        /\ cut_list[trial] = int(WeightOf(CutPairs(spin_vector)))

\* a trial on the three-node graph has ended with a cut of non-zero weight
C11_Witness ==
    /\ pc = "trial" /\ trial >= 1 /\ num_nodes = 3
    /\ Cardinality(CutPairs(spin_vector)) = 2
    /\ cut_list[trial] # 0

\* C12: a run of one trial or more reports a best_cut_value equal to the
\* maximum of the recorded cut values (cut_max), and a best_partition that is
\* the 0/1 image of the final spins of a trial whose cut is best_cut_value.
C12_BestIsMax ==
    (pc = "done" /\ trials >= 1) =>
        /\ results.best_cut_value = results.cut_max
        /\ \E k \in 1 .. Len(spin_list) :
               /\ results.best_partition = Image(spin_list[k])
               /\ calculate_cut_value_rram(spin_list[k]) = results.best_cut_value

\* the cut value of the k-th finished trial
CutOf(k) == WeightOf(CutPairs(spin_list[k]))

Perms(n) == {f \in [1 .. n -> 1 .. n] : \A a, b \in 1 .. n : f[a] = f[b] => a = b}
Reorder(sl, f) == [k \in 1 .. Len(sl) |-> sl[f[k]]]

\* C14 (as stated): for every order of the same trial results the reported
\* best partition, best cut value, mean, min, max and standard deviation of
\* the cut values are the same.
C14_OrderFree ==
    pc = "done" =>
        \A f \in Perms(Len(spin_list)) :
            LET a == aggregate(Reorder(spin_list, f))
            IN /\ a.best_partition = results.best_partition
               /\ a.best_cut_value = results.best_cut_value
               /\ a.cut_avg = results.cut_avg
               /\ a.cut_min = results.cut_min
               /\ a.cut_max = results.cut_max
               /\ a.cut_std = results.cut_std

\* C14 (amended): the result is the fold of the trial results in their
\* order; for every order the best cut value, mean, min, max and standard
\* deviation, the trial count and the node count are the same, and the best
\* partition is the image of a trial whose cut is the best cut value (or None
\* when no trial exceeds the initial -1).
C14_StatisticsOrderFree ==
    pc = "done" =>
        /\ results = aggregate(spin_list)
        /\ \A f \in Perms(Len(spin_list)) :
              LET sl == Reorder(spin_list, f)
                  a == aggregate(sl)
              IN /\ a.best_cut_value = results.best_cut_value
                 /\ a.cut_avg = results.cut_avg
                 /\ a.cut_min = results.cut_min
                 /\ a.cut_max = results.cut_max
                 /\ a.cut_std = results.cut_std
                 /\ a.trials = results.trials
                 /\ a.n_nodes = results.n_nodes
                 /\ \/ a.best_partition = <<>> /\ results.best_partition = <<>>
                    \/ \E k \in 1 .. Len(sl) :
                          /\ a.best_partition = Image(sl[k])
                          /\ calculate_cut_value_rram(sl[k]) = a.best_cut_value

C14_Witness ==
    /\ pc = "done"
    /\ Len(spin_list) = 2
    /\ CutOf(1) # CutOf(2)
    /\ results.cut_list[1] # results.cut_list[2]
    /\ results.best_partition = Image(spin_list[2])

\* a graph with a single node, or with every weight zero
Degenerate ==
    \/ num_nodes = 1
    \/ \A i, j \in Idx(num_nodes) : adjacency_matrix[i][j] = Zero

\* C15: on a degenerate graph run_psa_trials raises nothing, and what it
\* returns has best cut value 0 and a 0/1 partition of length N, for every
\* trial count (0 included) and either parameter mode.
C15_Degenerate ==
    Degenerate =>
        /\ pc # "raised"
        /\ pc = "done" =>
              /\ results.best_cut_value = Zero
              /\ results.best_partition \in [Idx(num_nodes) -> {0, 1}]

\* the trial's own state, and its successor as a function of that state, of
\* the noise vector drawn (read only by an update) and of the shared inputs
Own == [pc |-> pc, spin_vector |-> spin_vector, I0 |-> I0, step |-> step]
trial_step(own, draw) ==
    IF own.pc = "while"
    THEN IF loop_test(I0_min, I0_max, beta, rounding, own.I0)
         THEN [own EXCEPT !.pc = "for", !.step = 0]
         ELSE [own EXCEPT !.pc = "trial"]
    ELSE IF own.step < tau
         THEN [own EXCEPT !.spin_vector = psa_annealing_step(own.spin_vector,
                                               gain_value(I0_min, beta, own.I0), draw),
                          !.step = own.step + 1]
         ELSE [own EXCEPT !.pc = "while", !.I0 = divide_by_beta(I0_min, beta, own.I0)]

\* C16: a trial starts from its drawn spins at gain I0_min whatever the
\* trials before it left behind; each of its steps takes the trial's own
\* state to a successor that is a function of that state, of the noise drawn
\* and of the shared inputs alone; and the cut it records is the cut of its
\* final spins.  The counters of the run (trial, cut_list, best record) are
\* not read.
C16_Deterministic ==
    [][/\ (pc = "trial" /\ pc' = "while") => (I0' = 0 /\ step' = 0)
       /\ (pc \in {"while", "for"}) => (Own' = trial_step(Own, noise'))
       /\ (pc = "while" /\ pc' = "trial") =>
             cut_list' = Append(cut_list, int(WeightOf(CutPairs(spin_vector))))]_vars

C16_Witness ==
    /\ pc = "for"
    /\ trial = 1
    /\ best_partition # <<>>
    /\ I0 >= 1
    /\ step >= 1
    /\ spin_vector # spin_list[1]

\* the shared inputs of the trials
Shared == <<config, solver, call, args, params>>

\* C17: from the first trial to the end of the run no step changes the weight
\* matrix, J, h, the tiles, the resistance table or the annealing parameters
\* and arguments; they keep the values construction and calibration gave
\* them.  A step changes only the trial's spins, noise and gain, its
\* counters and, when a trial ends, the tally of results.
C17_SharedUnchanged ==
    /\ [][(pc \in {"trial", "while", "for"}) => UNCHANGED Shared]_vars
    /\ [][(pc \in {"while", "for"} /\ pc' \in {"while", "for"}) => UNCHANGED tally]_vars
    /\ [](pc \in {"trial", "while", "for", "done", "raised"} =>
            /\ J_matrix = [i \in Idx(num_nodes) |->
                              [j \in Idx(num_nodes) |-> RNeg(adjacency_matrix[i][j])]]
            /\ h_vector = [i \in Idx(num_nodes) |-> 0]
            /\ matrix = quantize_weights(adjacency_matrix, num_nodes, device_levels,
                                         device_resistance)
            /\ crossbar_partitions = partition_matrix_to_crossbars(matrix, num_nodes,
                                                                   crossbar_size)
            /\ LET p == set_annealing_parameters(J_matrix, num_nodes, cycles, tau, param_type)
               IN <<I0_min, I0_max, beta>> = <<p.I0_min, p.I0_max, p.beta>>)

C17_Witness ==
    /\ pc = "trial"
    /\ trial = 2
    /\ num_nodes = 2
    /\ levels >= 2
    /\ spin_list[1] # spin_list[2]

\* the gain the trial that has just ended left the loop with
LastGain == gain_value(I0_min, beta, I0)

\* C18: a trial in which a non-finite value arose is not among the recorded
\* results: when a trial has just ended with a gain that is not finite (and
\* would be so again under any other seed, beta itself being not finite), the
\* cut list has no entry for it.
C18_FailedExcluded ==
    (pc = "trial" /\ trial >= 1 /\ ~IsFinite(LastGain)) => Len(cut_list) < trial

\* the value of an entry on the scale of the levels: (w - min)/(max - min)
\* times L - 1, or w times L - 1 when all entries are equal
Least(W) == CHOOSE m \in {W[i][j] : i, j \in Idx(num_nodes)} :
                \A i, j \in Idx(num_nodes) : ~RGt(m, W[i][j])
Greatest(W) == CHOOSE m \in {W[i][j] : i, j \in Idx(num_nodes)} :
                   \A i, j \in Idx(num_nodes) : ~RGt(W[i][j], m)
Scaled(W, i, j) ==
    LET normalized == IF Least(W) = Greatest(W) THEN W[i][j]
                      ELSE RDiv(RSub(W[i][j], Least(W)), RSub(Greatest(W), Least(W)))
    IN RMul(normalized, ToRat(device_levels - 1))
\* lv is the integer nearest to x, the even one of the two when x is half-way
Nearest(lv, x) ==
    LET twice == RAbs(RSub(RMul(ToRat(2), x), ToRat(2 * lv)))
    IN \/ RGt(One, twice)
       \/ twice = One /\ lv % 2 = 0

\* C19: the quantized matrix has the shape of W; each entry is the table
\* entry of a level in 0..L-1 that is the integer nearest to normalized*(L-1),
\* so no entry is outside the table; and the matrix is symmetric.
C19_Quantized ==
    pc = "ready" =>
        /\ DOMAIN matrix = Idx(num_nodes)
        /\ \A i \in Idx(num_nodes) : DOMAIN matrix[i] = Idx(num_nodes)
        /\ \A i, j \in Idx(num_nodes) :
              /\ \E lv \in Idx(device_levels) :
                     /\ Nearest(lv, Scaled(adjacency_matrix, i, j))
                     /\ matrix[i][j] = device_resistance[lv + 1]
              /\ matrix[i][j] = matrix[j][i]

\* three levels: an entry half-way between levels 0 and 1 gets the table
\* entry of level 0, and the diagonal, in the middle, that of level 1
C19_Witness ==
    /\ pc = "ready"
    /\ device_levels = 3
    /\ num_nodes = 3
    /\ \E i, j \in Idx(num_nodes) :
          /\ Scaled(adjacency_matrix, i, j) = <<1, 2>>
          /\ matrix[i][j] = device_resistance[1]
    /\ \E i, j \in Idx(num_nodes) : matrix[i][j] = device_resistance[3]
    /\ matrix[0][0] = device_resistance[2]

\* every off-diagonal weight is the same nonzero value (zero diagonal)
Uniform ==
    /\ adjacency_matrix[0][1] # Zero
    /\ \A i, j \in Idx(num_nodes) : i # j => adjacency_matrix[i][j] = adjacency_matrix[0][1]

\* C20 (as stated): the quantized matrix of a uniform graph holds one and the
\* same table entry everywhere, the diagonal included, whatever L is.
C20_OneEntry ==
    (pc = "ready" /\ Uniform) =>
        \E lv \in Idx(device_levels) :
            \A i, j \in Idx(num_nodes) : matrix[i][j] = device_resistance[lv + 1]

\* C20 (amended): the quantized matrix of a uniform graph holds one table
\* entry at every off-diagonal place and one at every diagonal place: the last
\* and the first entry of the table when the weight is positive, the first and
\* the last when it is negative; they are the same entry only when L = 1.
C20_TwoEntries ==
    (pc = "ready" /\ Uniform) =>
        LET positive == RGt(adjacency_matrix[0][1], Zero)
            edge == IF positive THEN device_levels ELSE 1
            diag == IF positive THEN 1 ELSE device_levels
        IN \A i, j \in Idx(num_nodes) :
              matrix[i][j] = device_resistance[IF i = j THEN diag ELSE edge]

C20_Witness ==
    /\ pc = "ready"
    /\ Uniform
    /\ num_nodes = 3
    /\ device_levels = 3
    /\ matrix[0][1] = device_resistance[3]
    /\ matrix[0][0] = device_resistance[1]

\* C21: with a resistance table whose length differs from the device-level
\* count, shorter or longer, construction raises and no resistance matrix
\* exists.
C21_LengthMismatch ==
    (Len(device_resistance) # device_levels) => (pc \in {"new", "raised"} /\ matrix = <<>>)

\* C22: with a device-level count of 0 or less, or a tile shape with a zero
\* dimension, construction raises: no solver exists and no spin update is
\* made.
C22_Rejected ==
    (device_levels <= 0 \/ crossbar_size[1] = 0 \/ crossbar_size[2] = 0) =>
        /\ pc \in {"new", "raised"}
        /\ crossbar_partitions = <<>>
        /\ spin_vector = <<>>

\* C23: the J of the adapter has a zero diagonal, is symmetric, has every
\* entry in -127..0, and above the diagonal holds the quantized value of its
\* own place when that is not zero and of the mirrored place otherwise; h is
\* all zero.
C23_AdapterJ ==
    pc = "mapped" =>
        LET original == J_quantized(matrix, num_nodes)
        IN /\ \A i \in Idx(num_nodes) : J_matrix[i][i] = 0 /\ h_vector[i] = 0
           /\ \A i, j \in Idx(num_nodes) :
                 /\ J_matrix[i][j] = J_matrix[j][i]
                 /\ J_matrix[i][j] \in (0 - 127) .. 0
                 /\ i < j => J_matrix[i][j] = (IF original[i][j] # 0 THEN original[i][j]
                                                ELSE original[j][i])

\* an asymmetric matrix: both places of a pair quantize to different non-zero
\* values, one of them at the half-way point 63.5, and the upper one is kept
C23_Witness ==
    /\ pc = "mapped"
    /\ num_nodes = 2
    /\ matrix[0][0] = 1
    /\ matrix[0][1] = 2
    /\ matrix[1][0] = 3
    /\ J_matrix[0][1] = 0 - 64
    /\ J_matrix[1][0] = 0 - 64

\* the Ising energy -sum over i < j of J_ij s_i s_j of a spin vector
RECURSIVE EnergySum(_, _)
EnergySum(spin, ps) ==
    IF ps = {} THEN Zero
    ELSE LET q == CHOOSE x \in ps : TRUE
         IN RAdd(RMul(J_matrix[q[1]][q[2]], ToRat(spin[q[1]] * spin[q[2]])),
                 EnergySum(spin, ps \ {q}))
Energy(spin) == RNeg(EnergySum(spin, Pairs(num_nodes)))
PositiveEdge == num_nodes = 2 /\ RGt(adjacency_matrix[0][1], Zero)

\* C24: on a two-node graph with one edge of weight w > 0, under the solver's
\* J, the spin vectors of least energy are exactly the two with opposite
\* spins; their cut value is w, and the cut value of the two others is 0.
C24_SignConvention ==
    (PositiveEdge /\ pc \notin {"new", "raised"}) =>
        \A s \in Spins :
            /\ (\A t \in Spins : RLeq(Energy(s), Energy(t))) <=> s[0] # s[1]
            /\ calculate_cut_value_rram(s) =
                  (IF s[0] # s[1] THEN adjacency_matrix[0][1] ELSE Zero)

C24_Witness ==
    /\ PositiveEdge
    /\ pc = "trial"
    /\ trial = 1
    /\ spin_vector[0] # spin_vector[1]
    /\ best_cut = <<3, 2>>
    /\ Energy(spin_vector) = <<0 - 3, 2>>

\* C25: the demonstration run on the unit triangle (10 trials, 100 cycles,
\* tau 1, mode 2) reports the best cut value 2, whatever is drawn.
C25_TriangleBest ==
    pc = "done" => results.best_cut_value = ToRat(2)

\* C26: for a structure of k >= 1 layers the graph has layer_num = k and a
\* NetStruct of length k whose records carry the layers' sizes, the first of
\* type conv with kernel size and stride 1, the others of type fc; after
\* mapping_net and calculate_transfer_distance both distance matrices are
\* k x k with 0 on the diagonal and 1 elsewhere.
C26_TCG ==
    LET k == Cardinality(DOMAIN maxcut_structure)
    IN (k >= 1 /\ pc \in {"tcg", "unmapped", "net_mapped", "distances"}) =>
         /\ layer_num = k
         /\ DOMAIN NetStruct = Idx(k)
         /\ \A i \in Idx(k) :
               LET d == NetStruct[i][1][1]
               IN /\ d.Infeature = maxcut_structure[i].input_size
                  /\ d.Outfeature = maxcut_structure[i].output_size
                  /\ d.type = (IF i = 0 THEN "conv" ELSE "fc")
                  /\ i = 0 => (d.Kernelsize = 1 /\ d.Stride = 1)
         /\ pc = "distances" =>
               /\ DOMAIN inLayer_distance = Idx(k)
               /\ DOMAIN transLayer_distance = Idx(k)
               /\ \A i \in Idx(k) :
                     /\ DOMAIN inLayer_distance[i] = Idx(k)
                     /\ DOMAIN transLayer_distance[i] = Idx(k)
                     /\ \A j \in Idx(k) :
                           /\ inLayer_distance[i][j] = (IF i = j THEN 0 ELSE 1)
                           /\ transLayer_distance[i][j] = (IF i = j THEN 0 ELSE 1)

C26_Witness ==
    /\ pc = "distances"
    /\ layer_num = 3
    /\ NetStruct[0][1][1].type = "conv"
    /\ NetStruct[2][1][1].type = "fc"
    /\ NetStruct[2][1][1].Infeature = 2
    /\ NetStruct[2][1][1].Outfeature = 1
    /\ inLayer_distance[0][2] = 1
    /\ transLayer_distance[2][2] = 0

\* C27: the parser accepts each command line the system tests run:
\* parse_args returns a namespace and the program goes on to solving.
C27_TestsAccepted ==
    argv \in TestInvocations => pc # "argerror"

\* the Ising local field h_i + sum over j of J_ij s_j
RECURSIVE CouplingSum(_, _, _)
CouplingSum(s, i, k) ==
    IF k = 0 THEN Zero
    ELSE RAdd(CouplingSum(s, i, k - 1), RMul(J_matrix[i][k - 1], ToRat(s[k - 1])))
IsingField(s) ==
    [i \in Idx(num_nodes) |-> RAdd(ToRat(h_vector[i]), CouplingSum(s, i, num_nodes))]

\* C28: on a constructed solver, calculate_local_field_rram returns the Ising
\* local field D_i = h_i + sum over j of J_ij s_j of every spin vector s.
C28_IsingField ==
    Constructed =>
        \A s \in Spins : calculate_local_field_rram(s) = IsingField(s)

\* the field's term of an update: tanh(I0 * D_i) on the spins before the step
FieldTerm(i) ==
    np_tanh(RMul(gain_value(I0_min, beta, I0), calculate_local_field_rram(spin_vector)[i]))

FieldNonNegative ==
    Constructed =>
        \A s \in Spins : \A i \in Idx(num_nodes) :
            RLeq(Zero, calculate_local_field_rram(s)[i])
TermNotNegative == \A i \in Idx(num_nodes) : ~RGt(Zero, FieldTerm(i))

\* C29: with h = 0 and a table of positive resistances the local field of
\* every spin vector is >= 0 in each component, tanh(I0 * D_i) is never
\* negative at an update, and an update sets a spin to -1 only where the
\* noise drawn for it is not positive: negative, or exactly 0 (the sum is then
\* 0 where the field's term is 0).
C29_FieldNeverPushesDown ==
    /\ [](FieldNonNegative)
    /\ [][UpdateStep => TermNotNegative]_vars
    /\ [][UpdateStep => \A i \in Idx(num_nodes) :
              (spin_vector'[i] = 0 - 1) => RLeq(noise'[i], Zero)]_vars

\* C29 as stated: a spin becomes -1 only where the noise drawn is negative
C29_NegativeDrawOnly ==
    /\ [](FieldNonNegative)
    /\ [][UpdateStep => TermNotNegative]_vars
    /\ [][UpdateStep => \A i \in Idx(num_nodes) :
              (spin_vector'[i] = 0 - 1) => RGt(Zero, noise'[i])]_vars

\* after an update of two spins: one is -1 on a negative draw, the other is
\* -1 on a draw of exactly 0
C29_Witness ==
    /\ pc = "for" /\ step > 0 /\ num_nodes = 2
    /\ h_vector = [i \in Idx(2) |-> 0]
    /\ \A k \in 1 .. Len(device_resistance) : device_resistance[k] > 0
    /\ noise[0] = <<0 - 1, 4>> /\ spin_vector[0] = 0 - 1
    /\ noise[1] = Zero /\ spin_vector[1] = 0 - 1

\* the contributions to row r of the tiles that cover it, added up
RECURSIVE TileSum(_, _, _)
TileSum(k, vec, r) ==
    IF k = 0 THEN Zero
    ELSE LET part == crossbar_partitions[k]
         IN RAdd(TileSum(k - 1, vec, r),
                 IF part.position[1] <= r /\ r < part.position[1] + part.actual_size[1]
                 THEN HardwareDot(part, vec, num_nodes, r - part.position[1], 0,
                                  crossbar_size[2])
                 ELSE Zero)

\* C30: after solve_maxcut_hardware, for every test vector the assembled
\* result has length N and its entry r is the sum of the contributions of the
\* tiles covering row r, and the partition has one 0/1 entry per node.
C30_LengthN ==
    (pc = "solved") =>
        \A k \in 1 .. Len(test_vectors) :
            /\ Len(full_results[k]) = num_nodes
            /\ \A r \in Idx(num_nodes) :
                   full_results[k][r + 1] =
                       TileSum(Len(crossbar_partitions),
                               [i \in Idx(num_nodes) |-> ToRat(test_vectors[k][i])], r)
            /\ Len(partitions[k]) = num_nodes
            /\ \A r \in Idx(num_nodes) : partitions[k][r + 1] \in {0, 1}

====
